---- MODULE Spec2Model ----
(***************************************************************************)
(* A model of the React performance profiler: the bundle, re-render and    *)
(* memory analyzers, the summary calculation of the report generator and   *)
(* the `analyze` command that runs them.                                   *)
(*                                                                         *)
(* JavaScript values are modelled as follows.  An object is a record; a    *)
(* property that is undefined is a field that is absent from the record,   *)
(* so `x.size || 0` reads the field when it is there and gives 0 when it   *)
(* is not.  An array is a sequence.  A string is a TLA+ string, taken      *)
(* apart with Len and SubSeq.  Byte sizes and counts are integers.  The    *)
(* free-text fields of a recommendation that no operation reads back       *)
(* (description, fix, codeExample) are not carried; estimatedImpact is     *)
(* carried where it is computed from the analysis.                         *)
(***************************************************************************)
EXTENDS Integers, Sequences, FiniteSets, TLC

VARIABLES
    stats,             \* bundle analyzer: the WebpackStats handed to analyzeWebpackStats
    bundleAnalysis,    \* bundle analyzer: the BundleAnalysis returned, or NoValue
    renderEvents,      \* re-render analyzer: the RenderEvent[] collected from the page
    rerenderAnalysis,  \* re-render analyzer: the RerenderAnalysis returned, or NoValue
    memorySnapshots,   \* memory analyzer: the MemorySnapshot[] the aggregation is given
    memoryAnalysis,    \* memory analyzer: the MemoryAnalysis built, the error thrown, or NoValue
    results,           \* the AnalysisResult the report generator works on
    summaryRuns,       \* how many times calculateSummary has been applied to results
    beforeSummary,     \* results as it was before the latest calculateSummary
    pc,                \* analyze command: the statement the action is at
    config,            \* analyze command: the AnalysisConfig built from the options
    invoked,           \* analyze command: the analyzers called so far, in call order
    failed,            \* analyze command: the analyzers that threw
    written,           \* analyze command: the report files written so far, in order
    webpackConfig,     \* bundle analyzer: the configuration loadWebpackConfig returned, or NoValue
    compiled,          \* bundle analyzer: the configuration webpack was called with, or NoValue
    browser            \* runtime analyzers: the headless browser: "none", "open" or "closed"

vars == <<stats, bundleAnalysis, renderEvents, rerenderAnalysis, memorySnapshots,
          memoryAnalysis, results, summaryRuns, beforeSummary, pc, config, invoked,
          failed, written, webpackConfig, compiled, browser>>

NoValue == [undefined |-> TRUE]

\* The error a read of a property of undefined, or a reduce of an empty array
\* without an initial value, throws.
TypeError == [threw |-> "TypeError"]

(***************************************************************************)
(* JavaScript helpers                                                      *)
(***************************************************************************)

\* obj.field || 0
OrZero(obj, field) == IF field \in DOMAIN obj THEN obj[field] ELSE 0

\* obj.field || ''
OrEmptyString(obj, field) == IF field \in DOMAIN obj THEN obj[field] ELSE ""

\* obj.field || []
OrEmptyList(obj, field) == IF field \in DOMAIN obj THEN obj[field] ELSE <<>>

\* String.prototype.endsWith
endsWith(s, suffix) ==
    /\ Len(s) >= Len(suffix)
    /\ SubSeq(s, Len(s) - Len(suffix) + 1, Len(s)) = suffix

\* String.prototype.includes
includes(s, sub) ==
    \E i \in 1..(Len(s) - Len(sub) + 1) : SubSeq(s, i, i + Len(sub) - 1) = sub

\* array.reduce((sum, x) => sum + x, 0) over a sequence of numbers
RECURSIVE SumSeq(_)
SumSeq(s) == IF s = <<>> THEN 0 ELSE SumSeq(SubSeq(s, 1, Len(s) - 1)) + s[Len(s)]

\* array.filter(keep), keep given as the set of kept positions
RECURSIVE FilterPositions(_, _)
FilterPositions(s, keep) ==
    IF s = <<>> THEN <<>>
    ELSE LET rest == FilterPositions(SubSeq(s, 1, Len(s) - 1), keep)
         IN  IF Len(s) \in keep THEN Append(rest, s[Len(s)]) ELSE rest

\* array.slice(0, n)
SliceFirst(s, n) == SubSeq(s, 1, IF Len(s) < n THEN Len(s) ELSE n)

(***************************************************************************)
(* Array.prototype.sort((a, b) => b.key - a.key): a stable sort, largest   *)
(* key first.  keys[i] is the key of element i; the result is the order in *)
(* which the positions of the array come out.                              *)
(***************************************************************************)

\* A sort that is not stable: position i goes before the positions of equal key.
UnstableInsertDescending(sorted, i, keys) ==
    LET p == Cardinality({k \in 1..Len(sorted) : keys[sorted[k]] > keys[i]})
    IN  SubSeq(sorted, 1, p) \o <<i>> \o SubSeq(sorted, p + 1, Len(sorted))

\* Where position i goes into an already sorted run: after every position whose
\* key is not smaller, so that elements with equal keys keep their input order.
InsertDescending(sorted, i, keys) ==
    LET p == Cardinality({k \in 1..Len(sorted) : keys[sorted[k]] >= keys[i]})
    IN  SubSeq(sorted, 1, p) \o <<i>> \o SubSeq(sorted, p + 1, Len(sorted))

RECURSIVE SortOrderDescending(_, _)
SortOrderDescending(keys, n) ==
    IF n = 0 THEN <<>>
    ELSE InsertDescending(SortOrderDescending(keys, n - 1), n, keys)

sortDescending(s, keys) ==
    LET order == SortOrderDescending(keys, Len(s))
    IN  [k \in 1..Len(s) |-> s[order[k]]]

(***************************************************************************)
(* Bundle analyzer                                                         *)
(***************************************************************************)

LARGE_MODULE_THRESHOLD == 50000
LargeModuleLimit == 20
BundleSizeLimit == 500000
ChunkSizeLimit == 250000
RecommendedModules == 3
RecommendedDuplicates == 3

\* chunk.names?.[0] || chunk.id?.toString() || 'unknown'
ChunkName(chunk) ==
    IF "names" \in DOMAIN chunk /\ Len(chunk.names) > 0 /\ chunk.names[1] # ""
        THEN chunk.names[1]
    ELSE IF "id" \in DOMAIN chunk THEN ToString(chunk.id)
    ELSE "unknown"

ChunkInfo(chunk) ==
    [name         |-> ChunkName(chunk),
     size         |-> OrZero(chunk, "size"),
     files        |-> OrEmptyList(chunk, "files"),
     modules      |-> Len(OrEmptyList(chunk, "modules")),
     isInitial    |-> IF "initial" \in DOMAIN chunk THEN chunk.initial ELSE FALSE,
     parentChunks |-> LET parents == OrEmptyList(chunk, "parents")
                      IN  [k \in 1..Len(parents) |-> ToString(parents[k])]]

analyzeChunks(st) ==
    LET infos == [k \in 1..Len(st.chunks) |-> ChunkInfo(st.chunks[k])]
    IN  sortDescending(infos, [k \in 1..Len(infos) |-> infos[k].size])

ModuleInfo(module) ==
    [name    |-> IF OrEmptyString(module, "name") = "" THEN "unknown" ELSE module.name,
     size    |-> OrZero(module, "size"),
     path    |-> OrEmptyString(module, "identifier"),
     reasons |-> LET reasons == OrEmptyList(module, "reasons")
                 IN  [k \in 1..Len(reasons) |->
                        IF OrEmptyString(reasons[k], "moduleName") = "" THEN "unknown"
                        ELSE reasons[k].moduleName],
     depth   |-> OrZero(module, "depth")]

\* A findLargeModules that slices before it sorts.
findLargeModulesSliceFirst(st) ==
    LET modules  == OrEmptyList(st, "modules")
        filtered == FilterPositions(modules,
                        {k \in 1..Len(modules) : OrZero(modules[k], "size") > LARGE_MODULE_THRESHOLD})
        infos    == SliceFirst([k \in 1..Len(filtered) |-> ModuleInfo(filtered[k])], LargeModuleLimit)
    IN  sortDescending(infos, [k \in 1..Len(infos) |-> infos[k].size])

findLargeModules(st) ==
    LET modules  == OrEmptyList(st, "modules")
        filtered == FilterPositions(modules,
                        {k \in 1..Len(modules) : OrZero(modules[k], "size") > LARGE_MODULE_THRESHOLD})
        infos    == [k \in 1..Len(filtered) |-> ModuleInfo(filtered[k])]
        sorted   == sortDescending(infos, [k \in 1..Len(infos) |-> infos[k].size])
    IN  SliceFirst(sorted, LargeModuleLimit)

\* fullName.match(/([^/\\]+)\.[jt]sx?$/): the extension the name ends with (its
\* length, 0 when there is none) and the run of non-separator characters before it.
ExtensionLength(fullName) ==
    IF endsWith(fullName, ".jsx") \/ endsWith(fullName, ".tsx") THEN 4
    ELSE IF endsWith(fullName, ".js") \/ endsWith(fullName, ".ts") THEN 3
    ELSE 0

IsSeparator(c) == c = "/" \/ c = "\\"

extractModuleName(fullName) ==
    LET ext       == ExtensionLength(fullName)
        stemEnd   == Len(fullName) - ext
        seps      == {k \in 1..stemEnd : IsSeparator(SubSeq(fullName, k, k))}
        stemStart == IF seps = {} THEN 1
                     ELSE (CHOOSE k \in seps : \A j \in seps : j <= k) + 1
    IN  IF ext = 0 \/ stemStart > stemEnd THEN fullName
        ELSE SubSeq(fullName, stemStart, stemEnd)

\* A test that forgets the modules under node_modules.
SkippedNameWebpackOnly(name) ==
    name = "" \/ includes(name, "webpack")

\* The test of line 182: what findDuplicateModules leaves out of the map.
SkippedName(name) ==
    name = "" \/ includes(name, "webpack") \/ includes(name, "node_modules")

\* A grouping that starts every group at two instances.
AddToModuleMapOffByOne(moduleMap, module) ==
    LET name == extractModuleName(OrEmptyString(module, "name"))
        at   == {k \in 1..Len(moduleMap) : moduleMap[k].name = name}
    IN  IF SkippedName(name) THEN moduleMap
        ELSE IF at # {}
            THEN LET k == CHOOSE j \in at : TRUE
                 IN  [moduleMap EXCEPT
                        ![k].instances = @ + 1,
                        ![k].totalSize = @ + OrZero(module, "size"),
                        ![k].locations = Append(@, OrEmptyString(module, "identifier"))]
        ELSE Append(moduleMap,
                    [name      |-> name,
                     instances |-> 2,
                     totalSize |-> OrZero(module, "size"),
                     locations |-> <<OrEmptyString(module, "identifier")>>])

\* One pass of the forEach of findDuplicateModules.  The Map is the sequence of
\* its entries in insertion order.
AddToModuleMap(moduleMap, module) ==
    LET name == extractModuleName(OrEmptyString(module, "name"))
        at   == {k \in 1..Len(moduleMap) : moduleMap[k].name = name}
    IN  IF SkippedName(name) THEN moduleMap
        ELSE IF at # {}
            THEN LET k == CHOOSE j \in at : TRUE
                 IN  [moduleMap EXCEPT
                        ![k].instances = @ + 1,
                        ![k].totalSize = @ + OrZero(module, "size"),
                        ![k].locations = Append(@, OrEmptyString(module, "identifier"))]
        ELSE Append(moduleMap,
                    [name      |-> name,
                     instances |-> 1,
                     totalSize |-> OrZero(module, "size"),
                     locations |-> <<OrEmptyString(module, "identifier")>>])

RECURSIVE BuildModuleMap(_)
BuildModuleMap(modules) ==
    IF modules = <<>> THEN <<>>
    ELSE AddToModuleMap(BuildModuleMap(SubSeq(modules, 1, Len(modules) - 1)),
                        modules[Len(modules)])

findDuplicateModules(st) ==
    LET moduleMap == BuildModuleMap(OrEmptyList(st, "modules"))
        repeated  == FilterPositions(moduleMap,
                         {k \in 1..Len(moduleMap) : moduleMap[k].instances > 1})
    IN  sortDescending(repeated, [k \in 1..Len(repeated) |-> repeated[k].totalSize])

\* The bucket of calculateMetrics an asset name falls in.
IsImageName(name) ==
    \E ext \in {".png", ".jpg", ".jpeg", ".gif", ".svg", ".webp"} : endsWith(name, ext)

\* A bucket choice that lets a source map count as JavaScript and as other.
AssetBucketsOverlapping(name) ==
    (IF includes(name, ".js") THEN {"jsSize"} ELSE {})
    \cup (IF endsWith(name, ".css") THEN {"cssSize"} ELSE {})
    \cup (IF IsImageName(name) THEN {"imageSize"} ELSE {})
    \cup (IF ~endsWith(name, ".js") /\ ~endsWith(name, ".css") /\ ~IsImageName(name)
            THEN {"otherSize"} ELSE {})

AssetBuckets(name) ==
    IF endsWith(name, ".js") THEN {"jsSize"}
    ELSE IF endsWith(name, ".css") THEN {"cssSize"}
    ELSE IF IsImageName(name) THEN {"imageSize"}
    ELSE {"otherSize"}

RECURSIVE AddAssets(_, _)
AddAssets(metrics, assets) ==
    IF assets = <<>> THEN metrics
    ELSE LET before == AddAssets(metrics, SubSeq(assets, 1, Len(assets) - 1))
             asset  == assets[Len(assets)]
             size   == OrZero(asset, "size")
             into   == AssetBuckets(OrEmptyString(asset, "name"))
         IN  [b \in DOMAIN before |-> IF b \in into THEN before[b] + size ELSE before[b]]

calculateMetrics(st) ==
    AddAssets([jsSize |-> 0, cssSize |-> 0, imageSize |-> 0, otherSize |-> 0], st.assets)

Recommendation(severity, category, title) ==
    [severity |-> severity, category |-> category, title |-> title]

\* The total that generateBundleRecommendations compares with the limit (line 249).
RecommendationTotalSize(chunks) ==
    SumSeq([k \in 1..Len(chunks) |-> chunks[k].size])

\* Lines 249-271: the bundle-size recommendation, if the chunks add up to over the limit.
bundleSizeRecommendations(chunks) ==
    IF RecommendationTotalSize(chunks) > BundleSizeLimit
        THEN <<Recommendation("critical", "bundle-size",
                              "Bundle size exceeds recommended limit")>>
        ELSE <<>>

\* Chunk recommendations that start at the limit itself.
chunkSizeRecommendationsFromLimit(chunks) ==
    LET large == FilterPositions(chunks,
                     {k \in 1..Len(chunks) : chunks[k].size >= ChunkSizeLimit})
    IN  [k \in 1..Len(large) |->
            Recommendation("warning", "chunk-size",
                           "Large chunk detected: " \o large[k].name)]

\* Lines 274-285: one recommendation for each chunk over the limit, in the chunks' order.
chunkSizeRecommendations(chunks) ==
    LET large == FilterPositions(chunks,
                     {k \in 1..Len(chunks) : chunks[k].size > ChunkSizeLimit})
    IN  [k \in 1..Len(large) |->
            Recommendation("warning", "chunk-size",
                           "Large chunk detected: " \o large[k].name)]

\* Module recommendations without the slice: one for every large module.
largeModuleRecommendationsUnsliced(largeModules) ==
    [k \in 1..Len(largeModules) |->
        Recommendation("warning", "large-module", "Large module: " \o largeModules[k].name)]

\* Lines 288-307: one recommendation for each of the first 3 large modules.
largeModuleRecommendations(largeModules) ==
    LET topModules == SliceFirst(largeModules, RecommendedModules)
    IN  [k \in 1..Len(topModules) |->
            Recommendation("warning", "large-module", "Large module: " \o topModules[k].name)]

\* Lines 310-336: one recommendation for each of the first 3 duplicates.
duplicateRecommendations(duplicates) ==
    LET topDups == SliceFirst(duplicates, RecommendedDuplicates)
    IN  [k \in 1..Len(topDups) |->
            Recommendation("warning", "duplicate-modules",
                           "Duplicate module: " \o topDups[k].name)]

\* Recommendations with the check of the total moved behind the other checks.
generateBundleRecommendationsTotalLast(chunks, largeModules, duplicates, metrics) ==
    chunkSizeRecommendations(chunks)
        \o largeModuleRecommendations(largeModules)
        \o duplicateRecommendations(duplicates)
        \o bundleSizeRecommendations(chunks)

generateBundleRecommendations(chunks, largeModules, duplicates, metrics) ==
    bundleSizeRecommendations(chunks)
        \o chunkSizeRecommendations(chunks)
        \o largeModuleRecommendations(largeModules)
        \o duplicateRecommendations(duplicates)

\* An analysis whose total is reduced without the initial value 0: on an array
\* without assets the reduce throws.
analyzeWebpackStatsNoInitialValue(st) ==
    LET chunks       == analyzeChunks(st)
        largeModules == findLargeModules(st)
        duplicates   == findDuplicateModules(st)
        metrics      == calculateMetrics(st)
    IN  IF st.assets = <<>> THEN TypeError
        ELSE [totalSize       |-> SumSeq([k \in 1..Len(st.assets) |->
                                              OrZero(st.assets[k], "size")]),
              chunks          |-> chunks,
              largeModules    |-> largeModules,
              duplicates      |-> duplicates,
              recommendations |-> generateBundleRecommendations(chunks, largeModules,
                                                                duplicates, metrics),
              metrics         |-> metrics]

analyzeWebpackStats(st) ==
    LET chunks       == analyzeChunks(st)
        largeModules == findLargeModules(st)
        duplicates   == findDuplicateModules(st)
        metrics      == calculateMetrics(st)
    IN  [totalSize       |-> SumSeq([k \in 1..Len(st.assets) |-> OrZero(st.assets[k], "size")]),
         chunks          |-> chunks,
         largeModules    |-> largeModules,
         duplicates      |-> duplicates,
         recommendations |-> generateBundleRecommendations(chunks, largeModules,
                                                           duplicates, metrics),
         metrics         |-> metrics]

(***************************************************************************)
(* Re-render analyzer.  A duration is a whole number of microseconds; the  *)
(* mean duration of a component is kept exact, as the total and the count. *)
(***************************************************************************)

UnnecessaryMinRenders == 5
UnnecessaryMaxMillis == 5
ExcessiveMinRenders == 10
ExcessiveComponents == 5
CauseMinCount == 5
SlowMinMillis == 16
SlowComponents == 3
MicrosPerMilli == 1000

\* A grouping that begins each group empty, losing the event that opens it.
AddToComponentMapDroppingFirst(componentMap, event) ==
    LET at == {k \in 1..Len(componentMap) : componentMap[k].name = event.componentName}
    IN  IF at # {}
            THEN LET k == CHOOSE j \in at : TRUE
                 IN  [componentMap EXCEPT ![k].events = Append(@, event)]
            ELSE Append(componentMap, [name |-> event.componentName, events |-> <<>>])

\* One pass of the first forEach of analyzeRenderEvents.  The Map is the sequence
\* of its entries in insertion order.
AddToComponentMap(componentMap, event) ==
    LET at == {k \in 1..Len(componentMap) : componentMap[k].name = event.componentName}
    IN  IF at # {}
            THEN LET k == CHOOSE j \in at : TRUE
                 IN  [componentMap EXCEPT ![k].events = Append(@, event)]
            ELSE Append(componentMap, [name |-> event.componentName, events |-> <<event>>])

\* The forEach over events[from..to], in order, from the Map it is given.  The
\* range is gone through half by half, and the Map the first half leaves is a
\* value before the second half begins.
RECURSIVE ForEachEvent(_, _, _, _)
ForEachEvent(componentMap, events, from, to) ==
    IF from > to THEN componentMap
    ELSE IF from = to THEN AddToComponentMap(componentMap, events[from])
    ELSE LET middle == (from + to) \div 2
         IN  CHOOSE after \in
                {ForEachEvent(half, events, middle + 1, to) :
                    half \in {ForEachEvent(componentMap, events, from, middle)}} : TRUE

GroupByComponent(events) == ForEachEvent(<<>>, events, 1, Len(events))

\* causeCounts: the cause types of a group in order of first appearance, each with
\* its count and the details of the first event that has it.
RECURSIVE CauseTypes(_)
CauseTypes(events) ==
    IF events = <<>> THEN <<>>
    ELSE LET before == CauseTypes(SubSeq(events, 1, Len(events) - 1))
             type   == events[Len(events)].causeType
         IN  IF \E k \in 1..Len(before) : before[k] = type THEN before
             ELSE Append(before, type)

\* Causes whose details are those of the last event of the type.
RerenderCausesLastDetails(events) ==
    LET types == CauseTypes(events)
    IN  [k \in 1..Len(types) |->
            LET matching == {i \in 1..Len(events) : events[i].causeType = types[k]}
                last     == CHOOSE i \in matching : \A j \in matching : i >= j
            IN  [type    |-> types[k],
                 count   |-> Cardinality(matching),
                 details |-> OrEmptyString(events[last], "details")]]

RerenderCauses(events) ==
    LET types == CauseTypes(events)
    IN  [k \in 1..Len(types) |->
            LET matching == {i \in 1..Len(events) : events[i].causeType = types[k]}
                first    == CHOOSE i \in matching : \A j \in matching : i <= j
            IN  [type    |-> types[k],
                 count   |-> Cardinality(matching),
                 details |-> OrEmptyString(events[first], "details")]]

\* A summary whose flag is already set at the fifth render.
ComponentRerenderInfoFromFive(group) ==
    LET renderCount == Len(group.events)
        totalTime   == SumSeq([i \in 1..renderCount |-> group.events[i].duration])
    IN  [name            |-> group.name,
         renderCount     |-> renderCount,
         totalRenderTime |-> totalTime,
         causes          |-> RerenderCauses(group.events),
         isUnnecessary   |-> /\ renderCount >= UnnecessaryMinRenders
                             /\ totalTime < UnnecessaryMaxMillis * MicrosPerMilli * renderCount]

ComponentRerenderInfo(group) ==
    LET renderCount == Len(group.events)
        totalTime   == SumSeq([i \in 1..renderCount |-> group.events[i].duration])
    IN  [name            |-> group.name,
         renderCount     |-> renderCount,
         totalRenderTime |-> totalTime,
         causes          |-> RerenderCauses(group.events),
         isUnnecessary   |-> /\ renderCount > UnnecessaryMinRenders
                             /\ totalTime < UnnecessaryMaxMillis * MicrosPerMilli * renderCount]

\* component.causes.find((c) => c.type === type)?.count, 0 when there is none
CauseCount(component, type) ==
    LET at == {k \in 1..Len(component.causes) : component.causes[k].type = type}
    IN  IF at = {} THEN 0 ELSE component.causes[CHOOSE k \in at : TRUE].count

\* `Could reduce renders by ${Math.floor(component.renderCount * 0.6)} times`
EstimatedImpact(renderCount) ==
    "Could reduce renders by " \o ToString((renderCount * 6) \div 10) \o " times"

\* A first rule whose recommendations are of severity info.
ExcessiveRecommendationsAsInfo(component) ==
    (IF CauseCount(component, "props") > CauseMinCount
        THEN <<Recommendation("info", "excessive-renders",
                   "Component \"" \o component.name \o "\" re-renders frequently")
               @@ [estimatedImpact |-> EstimatedImpact(component.renderCount)]>>
        ELSE <<>>)
    \o
    (IF CauseCount(component, "state") > CauseMinCount
        THEN <<Recommendation("info", "state-updates",
                   "Component \"" \o component.name \o "\" has frequent state updates")>>
        ELSE <<>>)

ExcessiveRecommendations(component) ==
    (IF CauseCount(component, "props") > CauseMinCount
        THEN <<Recommendation("warning", "excessive-renders",
                   "Component \"" \o component.name \o "\" re-renders frequently")
               @@ [estimatedImpact |-> EstimatedImpact(component.renderCount)]>>
        ELSE <<>>)
    \o
    (IF CauseCount(component, "state") > CauseMinCount
        THEN <<Recommendation("warning", "state-updates",
                   "Component \"" \o component.name \o "\" has frequent state updates")>>
        ELSE <<>>)

RECURSIVE FlatMapExcessive(_)
FlatMapExcessive(components) ==
    IF components = <<>> THEN <<>>
    ELSE FlatMapExcessive(SubSeq(components, 1, Len(components) - 1))
            \o ExcessiveRecommendations(components[Len(components)])

\* A first rule that goes through every component with over 10 renders.
excessiveRenderRecommendationsUnsliced(components) ==
    FlatMapExcessive(
        FilterPositions(components,
            {k \in 1..Len(components) :
                components[k].renderCount > ExcessiveMinRenders}))

\* Lines 290-363: the recommendations for the first 5 components with over 10 renders.
excessiveRenderRecommendations(components) ==
    FlatMapExcessive(
        SliceFirst(
            FilterPositions(components,
                {k \in 1..Len(components) :
                    components[k].renderCount > ExcessiveMinRenders}),
            ExcessiveComponents))

\* A second rule that starts at the frame time itself.
slowRenderRecommendationsFromLimit(components) ==
    LET slow == SliceFirst(
                    FilterPositions(components,
                        {k \in 1..Len(components) :
                            components[k].totalRenderTime >=
                                SlowMinMillis * MicrosPerMilli * components[k].renderCount}),
                    SlowComponents)
    IN  [k \in 1..Len(slow) |->
            Recommendation("critical", "slow-renders",
                "Component \"" \o slow[k].name \o "\" renders slowly")]

\* Lines 366-399: the recommendations for the first 3 components whose mean
\* duration is over 16 ms.
slowRenderRecommendations(components) ==
    LET slow == SliceFirst(
                    FilterPositions(components,
                        {k \in 1..Len(components) :
                            components[k].totalRenderTime >
                                SlowMinMillis * MicrosPerMilli * components[k].renderCount}),
                    SlowComponents)
    IN  [k \in 1..Len(slow) |->
            Recommendation("critical", "slow-renders",
                "Component \"" \o slow[k].name \o "\" renders slowly")]

generateRerenderRecommendations(components) ==
    excessiveRenderRecommendations(components) \o slowRenderRecommendations(components)

analyzeRenderEvents(events) ==
    LET componentMap == GroupByComponent(events)
        infos        == [k \in 1..Len(componentMap) |-> ComponentRerenderInfo(componentMap[k])]
        unnecessary  == {k \in 1..Len(infos) : infos[k].isUnnecessary}
        components   == sortDescending(infos, [k \in 1..Len(infos) |-> infos[k].renderCount])
    IN  [components           |-> components,
         totalRerenders       |-> SumSeq([k \in 1..Len(infos) |-> infos[k].renderCount]),
         unnecessaryRerenders |-> SumSeq([k \in 1..Len(infos) |->
                                     IF k \in unnecessary THEN infos[k].renderCount ELSE 0]),
         recommendations      |-> generateRerenderRecommendations(components)]

(***************************************************************************)
(* Memory analyzer.  analyzeMemory hands the aggregation numSnapshots       *)
(* snapshots; the functions themselves take an array of any length.  A     *)
(* function that reads a property of an element the array does not have    *)
(* throws a TypeError, which is the value TypeError here.                  *)
(***************************************************************************)

NumSnapshots == 5
GrowthSnapshots == 3
GrowthLimit == 1048576
IncreasePercent == 50
HighMemoryLimit == 52428800

detectDetachedDOMNodes ==
    [type |-> "detached-dom", severity |-> "warning", retainedSize |-> 524288,
     objects |-> <<[constructor |-> "HTMLDivElement", count |-> 15, retainedSize |-> 348160,
                    location |-> "Component cleanup issue"],
                   [constructor |-> "HTMLButtonElement", count |-> 8, retainedSize |-> 176128]>>]

detectEventListenerLeaks ==
    [type |-> "event-listeners", severity |-> "warning", retainedSize |-> 262144,
     objects |-> <<[constructor |-> "EventListener", count |-> 42, retainedSize |-> 262144,
                    location |-> "useEffect cleanup missing"]>>]

\* A sum that leaves out the steps in which the heap falls.
GrowthSumOfRises(snapshots) ==
    SumSeq([i \in 1..(Len(snapshots) - 1) |->
                IF snapshots[i + 1].heapUsed > snapshots[i].heapUsed
                    THEN snapshots[i + 1].heapUsed - snapshots[i].heapUsed
                    ELSE 0])

\* The sum of growthRates: the growth from each snapshot to the next.
GrowthSum(snapshots) ==
    SumSeq([i \in 1..(Len(snapshots) - 1) |->
                snapshots[i + 1].heapUsed - snapshots[i].heapUsed])

\* A projection that takes the mean over the snapshots instead of over the deltas.
ProjectedGrowthOverSnapshots(growth, n) == growth

\* Math.floor(avgGrowth * snapshots.length), avgGrowth the mean of the n - 1 deltas,
\* whose sum is `growth`
ProjectedGrowth(growth, n) == (growth * n) \div (n - 1)

\* Lines 163-182: the leak pushed for consistent growth, if any.  The mean of the
\* n - 1 deltas is over the limit when their sum is over n - 1 times the limit.
consistentGrowth(snapshots) ==
    LET n      == Len(snapshots)
        growth == GrowthSum(snapshots)
    IN  IF n >= GrowthSnapshots /\ growth > GrowthLimit * (n - 1)
            THEN <<[type |-> "consistent-growth", severity |-> "critical",
                    retainedSize |-> ProjectedGrowth(growth, n), objects |-> <<>>]>>
            ELSE <<>>

\* A large-increase rule that also fires at the percentage itself.
largeIncreaseFromLimit(snapshots) ==
    LET initial == snapshots[1].heapUsed
        final   == snapshots[Len(snapshots)].heapUsed
    IN  IF (IF initial = 0 THEN final - initial > 0
            ELSE (final - initial) * (100 \div IncreasePercent) >= initial)
            THEN <<[type |-> "large-increase", severity |-> "warning",
                    retainedSize |-> final - initial, objects |-> <<>>]>>
            ELSE <<>>

\* Lines 185-198: the leak pushed for a large increase, if any, of a non-empty
\* array.  (memoryIncrease / initialMemory) * 100 > 50: a division by 0 gives
\* Infinity for a positive increase and NaN, which compares false, for none; for
\* any other initial value the percentage is over 50 when the increase times
\* 100 / 50 is over the initial value.
largeIncrease(snapshots) ==
    LET initial == snapshots[1].heapUsed
        final   == snapshots[Len(snapshots)].heapUsed
    IN  IF (IF initial = 0 THEN final - initial > 0
            ELSE (final - initial) * (100 \div IncreasePercent) > initial)
            THEN <<[type |-> "large-increase", severity |-> "warning",
                    retainedSize |-> final - initial, objects |-> <<>>]>>
            ELSE <<>>

\* Line 185 reads snapshots[0].heapUsed: of an empty array snapshots[0] is
\* undefined, and the read throws.
detectMemoryLeaksThrows(snapshots) == snapshots = <<>>

\* A detection that pushes the two fixed findings before the measured ones.
detectMemoryLeaksFixedFirst(snapshots) ==
    <<detectDetachedDOMNodes, detectEventListenerLeaks>>
        \o consistentGrowth(snapshots)
        \o largeIncrease(snapshots)

\* The leaks returned for an array on which detectMemoryLeaks does not throw.
detectMemoryLeaks(snapshots) ==
    consistentGrowth(snapshots)
        \o largeIncrease(snapshots)
        \o <<detectDetachedDOMNodes, detectEventListenerLeaks>>

\* A retained size that is the plain difference of the last and the first snapshot.
calculateRetainedSizeSigned(snapshots) ==
    IF Len(snapshots) < 2 THEN 0
    ELSE snapshots[Len(snapshots)].heapUsed - snapshots[1].heapUsed

calculateRetainedSize(snapshots) ==
    IF Len(snapshots) < 2 THEN 0
    ELSE LET grown == snapshots[Len(snapshots)].heapUsed - snapshots[1].heapUsed
         IN  IF grown > 0 THEN grown ELSE 0

\* Line 359 reads snapshots[snapshots.length - 1].heapUsed: of an empty array the
\* element is undefined, and the read throws.
generateMemoryRecommendationsThrows(snapshots) == snapshots = <<>>

\* Recommendations whose first rule takes every leak that is not informational.
generateMemoryRecommendationsPerLeak(snapshots, leaks) ==
    LET reported == FilterPositions(leaks, {k \in 1..Len(leaks) : leaks[k].severity # "info"})
        hasType(t) == \E k \in 1..Len(leaks) : leaks[k].type = t
    IN  [k \in 1..Len(reported) |->
            Recommendation("critical", "memory-leak",
                           "Memory leak detected: " \o reported[k].type)]
        \o (IF hasType("detached-dom")
                THEN <<Recommendation("warning", "detached-dom", "Detached DOM nodes detected")>>
                ELSE <<>>)
        \o (IF hasType("event-listeners")
                THEN <<Recommendation("warning", "event-listeners",
                                      "Event listeners not properly cleaned up")>>
                ELSE <<>>)
        \o (IF snapshots[Len(snapshots)].heapUsed > HighMemoryLimit
                THEN <<Recommendation("warning", "high-memory", "High memory usage detected")>>
                ELSE <<>>)

\* The recommendations returned for an array on which the function does not throw.
generateMemoryRecommendations(snapshots, leaks) ==
    LET critical == FilterPositions(leaks, {k \in 1..Len(leaks) : leaks[k].severity = "critical"})
        hasType(t) == \E k \in 1..Len(leaks) : leaks[k].type = t
    IN  [k \in 1..Len(critical) |->
            Recommendation("critical", "memory-leak",
                           "Memory leak detected: " \o critical[k].type)]
        \o (IF hasType("detached-dom")
                THEN <<Recommendation("warning", "detached-dom", "Detached DOM nodes detected")>>
                ELSE <<>>)
        \o (IF hasType("event-listeners")
                THEN <<Recommendation("warning", "event-listeners",
                                      "Event listeners not properly cleaned up")>>
                ELSE <<>>)
        \o (IF snapshots[Len(snapshots)].heapUsed > HighMemoryLimit
                THEN <<Recommendation("warning", "high-memory", "High memory usage detected")>>
                ELSE <<>>)

\* Lines 73-87 of analyzeMemory: the MemoryAnalysis built from the snapshots, or
\* the error the first function that throws lets out.
MemoryAnalysis(snapshots) ==
    IF detectMemoryLeaksThrows(snapshots) \/ generateMemoryRecommendationsThrows(snapshots)
        THEN TypeError
    ELSE LET leaks == detectMemoryLeaks(snapshots)
         IN  [snapshots       |-> snapshots,
              leaks           |-> leaks,
              heapSize        |-> snapshots[Len(snapshots)].heapUsed,
              retainedSize    |-> calculateRetainedSize(snapshots),
              recommendations |-> generateMemoryRecommendations(snapshots, leaks)]

(***************************************************************************)
(* Report generator: the summary                                           *)
(***************************************************************************)

\* results.analyses.<name>?.recommendations || []
RecommendationsOf(analyses, name) ==
    IF name \in DOMAIN analyses THEN OrEmptyList(analyses[name], "recommendations") ELSE <<>>

allRecommendations(res) ==
    RecommendationsOf(res.analyses, "bundle")
        \o RecommendationsOf(res.analyses, "rerenders")
        \o RecommendationsOf(res.analyses, "memory")

\* A tally whose else branch takes everything that is not critical for a warning.
SummaryOfCountingInfo(recs) ==
    [totalIssues    |-> Len(recs),
     criticalIssues |-> Cardinality({k \in 1..Len(recs) : recs[k].severity = "critical"}),
     warnings       |-> Cardinality({k \in 1..Len(recs) : recs[k].severity # "critical"}),
     suggestions    |-> [k \in 1..Len(recs) |-> recs[k].category \o ": " \o recs[k].title]]

\* The forEach of calculateSummary, from the zeroed counters and the empty list.
SummaryOf(recs) ==
    [totalIssues    |-> Len(recs),
     criticalIssues |-> Cardinality({k \in 1..Len(recs) : recs[k].severity = "critical"}),
     warnings       |-> Cardinality({k \in 1..Len(recs) : recs[k].severity = "warning"}),
     suggestions    |-> [k \in 1..Len(recs) |-> recs[k].category \o ": " \o recs[k].title]]

\* A calculateSummary that adds to the summary it finds instead of replacing it.
calculateSummaryAccumulating(res) ==
    LET new == SummaryOf(allRecommendations(res))
    IN  [res EXCEPT !.summary =
            [totalIssues    |-> @.totalIssues + new.totalIssues,
             criticalIssues |-> @.criticalIssues + new.criticalIssues,
             warnings       |-> @.warnings + new.warnings,
             suggestions    |-> @.suggestions \o new.suggestions]]

calculateSummary(res) ==
    [res EXCEPT !.summary = SummaryOf(allRecommendations(res))]

(***************************************************************************)
(* The WebpackStats the bundle analyzer is run on                          *)
(***************************************************************************)

MaxAssets == 2
MaxChunks == 3
MaxModules == 4
MaxSkippedModules == 3
MaxLargeModules == 22
MaxPatternChunks == 21
MaxGroupedModules == 9

SeqsUpTo(S, n) == UNION {[1..k -> S] : k \in 0..n}

AssetChoices ==
    {[name |-> "main.js", size |-> 300001],
     [name |-> "main.js", size |-> 200000],
     [name |-> "styles.css", size |-> 200000],
     [name |-> "logo.png", size |-> 300000],
     [name |-> "photo.jpeg", size |-> 200000],
     [name |-> "main.js.map", size |-> 300001],
     [name |-> "vendor.js"],
     [size |-> 300000]}

ChunkChoices ==
    {[names |-> <<"main">>, size |-> 300000, files |-> <<"main.js">>,
      modules |-> <<1, 2>>, initial |-> TRUE, parents |-> <<>>],
     [names |-> <<>>, size |-> 250001, files |-> <<"vendor.js">>, parents |-> <<1>>],
     [size |-> 250000],
     [size |-> 100000, initial |-> FALSE],
     [files |-> <<>>]}

\* The chunk at position i of the statistics: webpack numbers the chunks.
NumberedChunks(chunks) == [i \in 1..Len(chunks) |-> chunks[i] @@ [id |-> i]]

ModuleChoices ==
    {[name |-> "./src/a/utils.ts", size |-> 1000, depth |-> 1],
     [name |-> "./src/b/utils.js", size |-> 60000, reasons |-> <<[moduleName |-> "App.tsx"], [type |-> "entry"]>>],
     [name |-> "./lib/index.jsx", size |-> 2000],
     [name |-> "app\\index.tsx", size |-> 70000],
     [name |-> "./src/c/utils.tsx"],
     [name |-> "lodash", size |-> 230000]}

SkippedModuleChoices ==
    {[name |-> "./node_modules/a/lodash.js", size |-> 5000],
     [name |-> "./node_modules/b/lodash.js", size |-> 7000],
     [name |-> "./src/lodash.js", size |-> 100],
     [name |-> "./node_modules/react/index", size |-> 120000],
     [name |-> "webpack/runtime/ensure chunk", size |-> 300],
     [name |-> "./src/webpack.config.js", size |-> 900],
     [size |-> 400]}

\* The module at position i of the statistics: every module has its own identifier.
IdentifiedModules(modules) ==
    [i \in 1..Len(modules) |-> modules[i] @@ [identifier |-> "module-" \o ToString(i)]]

\* Module lists long enough for the limit of findLargeModules: n modules whose sizes
\* run through `period` consecutive values from `base` on, in steps of `stride`.
SizePatterns ==
    [base : {49999, 50001}, period : {3, 25}, stride : {1, 7}]

PatternModules(pattern, n) ==
    [i \in 1..n |->
        [name       |-> "./src/m" \o ToString(i) \o ".js",
         size       |-> pattern.base + ((i * pattern.stride) % pattern.period),
         identifier |-> "module-" \o ToString(i)]]

\* Chunk lists long enough for any number of chunk recommendations: n chunks whose
\* sizes run through `period` consecutive values from `base` on.
ChunkPatterns ==
    [base : {249999, 250001}, period : {3}]

PatternChunks(pattern, n) ==
    [i \in 1..n |->
        [id    |-> i,
         names |-> <<"chunk" \o ToString(i)>>,
         size  |-> pattern.base + (i % pattern.period)]]

\* Module lists with several duplicate groups and several large modules: module i
\* is the file mod<i % 4>.js of its own directory.
GroupedModules(n) ==
    [i \in 1..n |->
        [name       |-> "./src/p" \o ToString(i) \o "/mod" \o ToString(i % 4) \o ".js",
         size       |-> 20000 * ((i % 4) + 1) + 1000 * i,
         identifier |-> "module-" \o ToString(i)]]

DefaultAssets == <<[name |-> "main.js", size |-> 300001], [name |-> "styles.css", size |-> 200000]>>

BundleInputs ==
    {[assets |-> a, chunks |-> NumberedChunks(c), modules |-> <<>>] :
        a \in SeqsUpTo(AssetChoices, MaxAssets),
        c \in {<<>>,
               <<[size |-> 250000], [size |-> 250000]>>,
               <<[names |-> <<"main">>, size |-> 300000], [size |-> 250001]>>}}
    \cup
    {[assets |-> a, chunks |-> NumberedChunks(c), modules |-> <<>>] :
        a \in {<<>>, DefaultAssets}, c \in SeqsUpTo(ChunkChoices, MaxChunks)}
    \cup
    {[assets |-> DefaultAssets, chunks |-> <<>>, modules |-> IdentifiedModules(m)] :
        m \in SeqsUpTo(ModuleChoices, MaxModules)}
    \cup
    {[assets |-> <<>>, chunks |-> <<>>, modules |-> IdentifiedModules(m)] :
        m \in SeqsUpTo(SkippedModuleChoices, MaxSkippedModules)}
    \cup
    {[assets |-> <<>>, chunks |-> <<>>, modules |-> PatternModules(p, n)] :
        p \in SizePatterns, n \in 0..MaxLargeModules}
    \cup
    {[assets |-> <<>>, chunks |-> <<>>]}

(***************************************************************************)
(* The state of the parts of the program a specification leaves at rest    *)
(***************************************************************************)

NoStats == [assets |-> <<>>, chunks |-> <<>>, modules |-> <<>>]

EmptySummary == [totalIssues |-> 0, criticalIssues |-> 0, warnings |-> 0, suggestions |-> <<>>]

NoResults == [analyses |-> <<>>, summary |-> EmptySummary]

BundleAtRest == stats = NoStats /\ bundleAnalysis = NoValue

RerendersAtRest == renderEvents = <<>> /\ rerenderAnalysis = NoValue

MemoryAtRest == memorySnapshots = <<>> /\ memoryAnalysis = NoValue

ReportAtRest == results = NoResults /\ summaryRuns = 0 /\ beforeSummary = NoValue

HostAtRest == webpackConfig = NoValue /\ compiled = NoValue /\ browser = "none"

CommandAtRest ==
    /\ pc = "idle"
    /\ config = NoValue
    /\ invoked = <<>>
    /\ failed = {}
    /\ written = <<>>

(***************************************************************************)
(* SpecBundle: analyzeWebpackStats on one statistics object                *)
(***************************************************************************)

InitBundle ==
    /\ stats \in BundleInputs
    /\ bundleAnalysis = NoValue
    /\ RerendersAtRest
    /\ MemoryAtRest
    /\ ReportAtRest
    /\ CommandAtRest
    /\ HostAtRest

AnalyzeWebpackStats ==
    /\ pc = "idle"
    /\ bundleAnalysis = NoValue
    /\ bundleAnalysis' = analyzeWebpackStats(stats)
    /\ UNCHANGED <<webpackConfig, compiled, browser,
                   stats, renderEvents, rerenderAnalysis, results, summaryRuns,
                   beforeSummary, pc, config, invoked, failed, written,
                   memorySnapshots, memoryAnalysis>>

NextBundle == AnalyzeWebpackStats

SpecBundle == InitBundle /\ [][NextBundle]_vars

(***************************************************************************)
(* SpecRecommendations: analyzeWebpackStats on statistics with many chunks *)
(* and many modules, besides those of SpecBundle                           *)
(***************************************************************************)

RecommendationInputs ==
    BundleInputs
    \cup
    {[assets |-> <<>>, chunks |-> PatternChunks(p, n), modules |-> GroupedModules(m)] :
        p \in ChunkPatterns, n \in 0..MaxPatternChunks, m \in 0..MaxGroupedModules}

InitRecommendations ==
    /\ stats \in RecommendationInputs
    /\ bundleAnalysis = NoValue
    /\ RerendersAtRest
    /\ MemoryAtRest
    /\ ReportAtRest
    /\ CommandAtRest
    /\ HostAtRest

SpecRecommendations == InitRecommendations /\ [][NextBundle]_vars

(***************************************************************************)
(* SpecRerender: analyzeRenderEvents on the events one page run collected  *)
(***************************************************************************)

MaxBursts == 2

\* A burst is one component rendering `times` times in a row for one cause.
BurstChoices ==
    [componentName : {"App", "List", "Item"},
     causeType     : {"props", "state"},
     duration      : {3200, 20000},
     times         : {1, 6}]

RECURSIVE ExpandBursts(_)
ExpandBursts(bursts) ==
    IF bursts = <<>> THEN <<>>
    ELSE LET before == ExpandBursts(SubSeq(bursts, 1, Len(bursts) - 1))
             burst  == bursts[Len(bursts)]
         IN  before \o
             [i \in 1..burst.times |->
                [componentName |-> burst.componentName,
                 timestamp     |-> Len(before) + i,
                 duration      |-> burst.duration,
                 causeType     |-> burst.causeType,
                 details       |-> burst.causeType \o " changed at "
                                       \o ToString(Len(before) + i)]]

RenderEventInputs == {ExpandBursts(b) : b \in SeqsUpTo(BurstChoices, MaxBursts)}

InitRerender ==
    /\ renderEvents \in RenderEventInputs
    /\ rerenderAnalysis = NoValue
    /\ BundleAtRest
    /\ MemoryAtRest
    /\ ReportAtRest
    /\ CommandAtRest
    /\ HostAtRest

AnalyzeRenderEvents ==
    /\ pc = "idle"
    /\ rerenderAnalysis = NoValue
    /\ rerenderAnalysis' = analyzeRenderEvents(renderEvents)
    /\ UNCHANGED <<webpackConfig, compiled, browser,
                   stats, bundleAnalysis, renderEvents, results, summaryRuns,
                   beforeSummary, pc, config, invoked, failed, written,
                   memorySnapshots, memoryAnalysis>>

NextRerender == AnalyzeRenderEvents

SpecRerender == InitRerender /\ [][NextRerender]_vars

(***************************************************************************)
(* SpecRerenderRules: analyzeRenderEvents on event streams around the      *)
(* limits of its rules                                                     *)
(***************************************************************************)

MaxLimitBursts == 2
MaxCauseBursts == 3
MaxComponents == 9

\* One component rendering around 5 times, around 5 ms and around 16 ms a render.
LimitBurstChoices ==
    [componentName : {"App"},
     causeType     : {"props"},
     duration      : {4999, 5000, 16000, 16001},
     times         : {1, 5, 6}]

\* One component rendering around 10 times for around 5 renders of each cause.
CauseBurstChoices ==
    [componentName : {"ProductList"},
     causeType     : {"props", "state", "parent"},
     duration      : {3200},
     times         : {5, 6}]

\* n components, each rendering 9 to 13 times in a row for one cause; every
\* `slowEvery`-th of them takes 20 ms a render, the others 3.2 ms.
ComponentPatterns ==
    [causeType : {"props", "state"}, slowEvery : {1, 2}]

PatternBursts(pattern, n) ==
    [i \in 1..n |->
        [componentName |-> "C" \o ToString(i),
         causeType     |-> pattern.causeType,
         duration      |-> IF i % pattern.slowEvery = 0 THEN 20000 ELSE 3200,
         times         |-> 9 + ((i * 3) % 5)]]

\* createMockRenderEvents of the tests: App, Header and UserProfile once each,
\* then ProductList 15 times for its props at 3.2 ms.
createMockRenderEvents ==
    <<[componentName |-> "App", timestamp |-> 0, duration |-> 5200,
       causeType |-> "parent", details |-> "Parent component re-rendered"],
      [componentName |-> "Header", timestamp |-> 100, duration |-> 2100,
       causeType |-> "props", details |-> "Props: title, className"],
      [componentName |-> "UserProfile", timestamp |-> 200, duration |-> 18500,
       causeType |-> "state", details |-> "State changed"]>>
    \o [i \in 1..15 |->
          [componentName |-> "ProductList", timestamp |-> 300 + (i - 1) * 100,
           duration |-> 3200, causeType |-> "props", details |-> "Props: items"]]

RuleEventInputs ==
    {createMockRenderEvents}
    \cup
    {ExpandBursts(b) : b \in SeqsUpTo(LimitBurstChoices, MaxLimitBursts)}
    \cup
    {ExpandBursts(b) : b \in SeqsUpTo(CauseBurstChoices, MaxCauseBursts)}
    \cup
    {ExpandBursts(PatternBursts(p, n)) : p \in ComponentPatterns, n \in 0..MaxComponents}

InitRerenderRules ==
    /\ renderEvents \in RuleEventInputs
    /\ rerenderAnalysis = NoValue
    /\ BundleAtRest
    /\ MemoryAtRest
    /\ ReportAtRest
    /\ CommandAtRest
    /\ HostAtRest

SpecRerenderRules == InitRerenderRules /\ [][NextRerender]_vars

(***************************************************************************)
(* SpecMemory: the aggregation of analyzeMemory on one snapshot array      *)
(***************************************************************************)

MaxSnapshots == 4

MiB == 1024 * 1024

Snapshot(heapUsed) ==
    [timestamp |-> 0, heapUsed |-> heapUsed, heapTotal |-> heapUsed,
     external |-> 0, arrayBuffers |-> 0]

\* heapUsed is `usedJSHeapSize || JSHeapUsedSize || 0`: a byte count, 0 when the
\* page reports none.
HeapUsedChoices ==
    {0, 10 * MiB, 12 * MiB, 12 * MiB + 1, 14 * MiB, 15 * MiB, 15 * MiB + 1, 16 * MiB,
     HighMemoryLimit, HighMemoryLimit + 1}

SnapshotInputs == SeqsUpTo({Snapshot(h) : h \in HeapUsedChoices}, MaxSnapshots)

InitMemory ==
    /\ memorySnapshots \in SnapshotInputs
    /\ memoryAnalysis = NoValue
    /\ BundleAtRest
    /\ RerendersAtRest
    /\ ReportAtRest
    /\ CommandAtRest
    /\ HostAtRest

AnalyzeSnapshots ==
    /\ pc = "idle"
    /\ memoryAnalysis = NoValue
    /\ memoryAnalysis' = MemoryAnalysis(memorySnapshots)
    /\ UNCHANGED <<webpackConfig, compiled, browser,
                   stats, bundleAnalysis, renderEvents, rerenderAnalysis, memorySnapshots,
                   results, summaryRuns, beforeSummary, pc, config, invoked, failed,
                   written>>

NextMemory == AnalyzeSnapshots

SpecMemory == InitMemory /\ [][NextMemory]_vars

(***************************************************************************)
(* Inputs of the analyzers when the report generator or the command runs   *)
(***************************************************************************)

SampleStats ==
    {[assets  |-> <<[name |-> "main.js", size |-> 600000]>>,
      chunks  |-> <<[id |-> 1, names |-> <<"main">>, size |-> 600000]>>,
      modules |-> <<[name |-> "./node_modules/lodash/lodash.js", size |-> 230000,
                     identifier |-> "module-1"]>>],
     [assets |-> <<>>, chunks |-> <<>>, modules |-> <<>>]}

SampleEvents ==
    {ExpandBursts(<<[componentName |-> "List", causeType |-> "props",
                     duration |-> 20000, times |-> 11]>>),
     <<>>}

SampleSnapshots ==
    {[i \in 1..NumSnapshots |-> Snapshot(10485760 + (i - 1) * 2097152)],
     [i \in 1..NumSnapshots |-> Snapshot(60000000)]}

(***************************************************************************)
(* SpecSummary: calculateSummary on an AnalysisResult, again and again     *)
(***************************************************************************)

MaxSummaryRuns == 2

Optional(name, values) == {<<>>} \cup {[f \in {name} |-> v] : v \in values}

AnalysesInputs ==
    {b @@ r @@ m :
        b \in Optional("bundle",
                {analyzeWebpackStats(st) : st \in SampleStats}
                \cup {[totalSize |-> 0],
                      [recommendations |-> <<Recommendation("info", "bundle-size", "Bundle is small")>>]}),
        r \in Optional("rerenders",
                {analyzeRenderEvents(ev) : ev \in SampleEvents}
                \cup {[recommendations |->
                        <<Recommendation("info", "renders", "Few renders"),
                          Recommendation("critical", "slow-renders", "Slow")>>]}),
        m \in Optional("memory", {MemoryAnalysis(sn) : sn \in SampleSnapshots})}

StaleSummary ==
    [totalIssues |-> 7, criticalIssues |-> 3, warnings |-> 9, suggestions |-> <<"stale: entry">>]

InitSummary ==
    /\ results \in [timestamp : {1}, projectPath : {"/app"}, analyses : AnalysesInputs,
                    summary : {EmptySummary, StaleSummary}]
    /\ summaryRuns = 0
    /\ beforeSummary = NoValue
    /\ BundleAtRest
    /\ RerendersAtRest
    /\ MemoryAtRest
    /\ CommandAtRest
    /\ HostAtRest

CalculateSummary ==
    /\ pc = "idle"
    /\ summaryRuns < MaxSummaryRuns
    /\ results' = calculateSummary(results)
    /\ summaryRuns' = summaryRuns + 1
    /\ beforeSummary' = results
    /\ UNCHANGED <<webpackConfig, compiled, browser,
                   stats, bundleAnalysis, renderEvents, rerenderAnalysis,
                   pc, config, invoked, failed, written,
                   memorySnapshots, memoryAnalysis>>

NextSummary == CalculateSummary

SpecSummary == InitSummary /\ [][NextSummary]_vars

(***************************************************************************)
(* SpecCommand: one run of the `analyze` command.  pc is the statement the *)
(* run is at; each await is a step of its own.                             *)
(***************************************************************************)

ExistingPaths == {"/app"}

ConfigInputs ==
    {[projectPath |-> "/app", outputPath |-> "/app/profiler-reports"] @@ u @@ a :
        u \in Optional("appUrl", {"http://localhost:3000"}),
        a \in {[analyzers |-> [bundle |-> b, rerenders |-> r, memory |-> m]] :
                    b \in BOOLEAN, r \in BOOLEAN, m \in BOOLEAN}}
    \cup
    {[projectPath |-> "/missing", outputPath |-> "/app/profiler-reports",
      analyzers |-> [bundle |-> TRUE, rerenders |-> TRUE, memory |-> TRUE]]}

HasAppUrl == "appUrl" \in DOMAIN config /\ config.appUrl # ""

Terminated == pc \in {"done", "exit1", "rejected"}

InitCommand ==
    /\ pc = "validate"
    /\ config \in ConfigInputs
    /\ invoked = <<>>
    /\ failed = {}
    /\ written = <<>>
    /\ BundleAtRest
    /\ RerendersAtRest
    /\ MemoryAtRest
    /\ ReportAtRest
    /\ HostAtRest

\* Lines 50-54: process.exit(1) when the project path does not exist.
ValidateProjectPath ==
    /\ pc = "validate"
    /\ pc' = IF config.projectPath \in ExistingPaths THEN "ensureDir" ELSE "exit1"
    /\ UNCHANGED <<webpackConfig, compiled, browser,
                   stats, bundleAnalysis, renderEvents, rerenderAnalysis, results,
                   summaryRuns, beforeSummary, config, invoked, failed, written,
                   memorySnapshots, memoryAnalysis>>

\* Lines 57-69: the output directory is made, then results is built.  The await
\* is outside the try: when it rejects, the action's promise rejects.
EnsureOutputDir ==
    /\ pc = "ensureDir"
    /\ \E made \in BOOLEAN :
        IF made
            THEN /\ pc' = "bundle"
                 /\ results' = [timestamp |-> 1, projectPath |-> config.projectPath,
                                analyses |-> <<>>, summary |-> EmptySummary]
            ELSE /\ pc' = "rejected"
                 /\ UNCHANGED results
    /\ UNCHANGED <<webpackConfig, compiled, browser,
                   stats, bundleAnalysis, renderEvents, rerenderAnalysis,
                   summaryRuns, beforeSummary, config, invoked, failed, written,
                   memorySnapshots, memoryAnalysis>>

\* Conditions that look at the selection alone.
CalledWhenSelected(name) == config.analyzers[name]

\* Lines 73-75, 79-84 and 87-92: the analyzer is called when it is selected (and,
\* for the two that need the running application, when there is a URL).
CalledWhen(name) ==
    /\ config.analyzers[name]
    /\ name \in {"rerenders", "memory"} => HasAppUrl

\* A statement order in which the memory analysis comes before the re-render one.
AfterAnalyzerMemoryFirst ==
    [bundle |-> "memory", memory |-> "rerenders", rerenders |-> "report"]

AfterAnalyzer == [bundle |-> "rerenders", rerenders |-> "memory", memory |-> "report"]

StartAnalyzer(name) ==
    /\ pc = name
    /\ IF CalledWhen(name)
        THEN /\ pc' = name \o "-running"
             /\ invoked' = Append(invoked, name)
        ELSE /\ pc' = AfterAnalyzer[name]
             /\ UNCHANGED invoked
    /\ UNCHANGED <<webpackConfig, compiled, browser,
                   stats, bundleAnalysis, renderEvents, rerenderAnalysis, results,
                   summaryRuns, beforeSummary, config, failed, written,
                   memorySnapshots, memoryAnalysis>>

\* Line 75: results.analyses.bundle = await analyzeBundle(config)
BundleReturns ==
    /\ pc = "bundle-running"
    /\ \E st \in SampleStats :
        /\ stats' = st
        /\ bundleAnalysis' = analyzeWebpackStats(st)
        /\ results' = [results EXCEPT !.analyses =
                          [bundle |-> analyzeWebpackStats(st)] @@ @]
    /\ pc' = AfterAnalyzer["bundle"]
    /\ UNCHANGED <<webpackConfig, compiled, browser,
                   renderEvents, rerenderAnalysis, summaryRuns, beforeSummary,
                   config, invoked, failed, written,
                   memorySnapshots, memoryAnalysis>>

\* Line 81: results.analyses.rerenders = await analyzeRerenders(config)
RerendersReturns ==
    /\ pc = "rerenders-running"
    /\ \E ev \in SampleEvents :
        /\ renderEvents' = ev
        /\ rerenderAnalysis' = analyzeRenderEvents(ev)
        /\ results' = [results EXCEPT !.analyses =
                          [rerenders |-> analyzeRenderEvents(ev)] @@ @]
    /\ pc' = AfterAnalyzer["rerenders"]
    /\ UNCHANGED <<webpackConfig, compiled, browser,
                   stats, bundleAnalysis, summaryRuns, beforeSummary,
                   config, invoked, failed, written,
                   memorySnapshots, memoryAnalysis>>

\* Line 89: results.analyses.memory = await analyzeMemory(config)
MemoryReturns ==
    /\ pc = "memory-running"
    /\ \E sn \in SampleSnapshots :
        /\ memorySnapshots' = sn
        /\ memoryAnalysis' = MemoryAnalysis(sn)
        /\ results' = [results EXCEPT !.analyses = [memory |-> MemoryAnalysis(sn)] @@ @]
    /\ pc' = AfterAnalyzer["memory"]
    /\ UNCHANGED <<webpackConfig, compiled, browser,
                   stats, bundleAnalysis, renderEvents, rerenderAnalysis,
                   summaryRuns, beforeSummary, config, invoked, failed, written>>

\* An analyzer rethrows what went wrong in it; the catch of lines 101-104 logs the
\* error and ends the process.
AnalyzerThrows ==
    /\ \E name \in {"bundle", "rerenders", "memory"} :
        /\ pc = name \o "-running"
        /\ failed' = failed \cup {name}
    /\ pc' = "exit1"
    /\ UNCHANGED <<webpackConfig, compiled, browser,
                   stats, bundleAnalysis, renderEvents, rerenderAnalysis, results,
                   summaryRuns, beforeSummary, config, invoked, written,
                   memorySnapshots, memoryAnalysis>>

\* Line 96 and generateReport, line 11: the summary is calculated first.
GenerateReport ==
    /\ pc = "report"
    /\ results' = calculateSummary(results)
    /\ summaryRuns' = summaryRuns + 1
    /\ beforeSummary' = results
    /\ pc' = "report.json"
    /\ UNCHANGED <<webpackConfig, compiled, browser,
                   stats, bundleAnalysis, renderEvents, rerenderAnalysis,
                   config, invoked, failed, written,
                   memorySnapshots, memoryAnalysis>>

AfterReport == [json |-> "report.html", html |-> "report.md", md |-> "done"]

\* generateReport, lines 14-16: the three files, one await after the other; a
\* write that fails is caught by lines 101-104.
WriteReport ==
    /\ \E format \in {"json", "html", "md"} :
        /\ pc = "report." \o format
        /\ \E wrote \in BOOLEAN :
            IF wrote
                THEN /\ written' = Append(written, format)
                     /\ pc' = AfterReport[format]
                ELSE /\ pc' = "exit1"
                     /\ UNCHANGED written
    /\ UNCHANGED <<webpackConfig, compiled, browser,
                   stats, bundleAnalysis, renderEvents, rerenderAnalysis, results,
                   summaryRuns, beforeSummary, config, invoked, failed,
                   memorySnapshots, memoryAnalysis>>

NextCommand ==
    \/ ValidateProjectPath
    \/ EnsureOutputDir
    \/ \E name \in {"bundle", "rerenders", "memory"} : StartAnalyzer(name)
    \/ BundleReturns
    \/ RerendersReturns
    \/ MemoryReturns
    \/ AnalyzerThrows
    \/ GenerateReport
    \/ WriteReport

SpecCommand == InitCommand /\ [][NextCommand]_vars

(***************************************************************************)
(* SpecAnalyzeBundle: one call of analyzeBundle.  The file system holds     *)
(* configuration modules of four kinds; webpack either reports an error,   *)
(* hands over no statistics, or hands over statistics.                     *)
(***************************************************************************)

\* Lines 62-93.
getDefaultWebpackConfig ==
    [mode         |-> "production",
     entry        |-> "./src/index.tsx",
     output       |-> [path |-> "dist", filename |-> "[name].[contenthash].js"],
     resolve      |-> [extensions |-> <<".ts", ".tsx", ".js", ".jsx">>],
     module       |-> [rules |-> <<[use |-> "ts-loader"], [use |-> "babel-loader"]>>],
     optimization |-> [splitChunks |-> [chunks |-> "all"]]]

\* What require(configPath) gives for the files that exist: an object, a function
\* of (env, argv), or an error thrown while the module or the function runs.
ConfigModules ==
    [path \in {"/app/webpack.config.js", "/app/webpack.function.js",
               "/app/webpack.broken.js", "/app/webpack.throwing-function.js"} |->
        CASE path = "/app/webpack.config.js" ->
                [kind |-> "object", entry |-> "./src/main.js"]
          [] path = "/app/webpack.function.js" ->
                [kind |-> "function", entry |-> "./src/main.js"]
          [] path = "/app/webpack.broken.js" ->
                [kind |-> "throws"]
          [] OTHER ->
                [kind |-> "function-throws"]]

ConfigPaths == DOMAIN ConfigModules \cup {"/nonexistent/webpack.config.js"}

\* A loader that lets the error of a configuration module through.
loadWebpackConfigRethrowing(configPath) ==
    IF configPath \notin DOMAIN ConfigModules THEN getDefaultWebpackConfig
    ELSE LET exported == ConfigModules[configPath]
         IN  CASE exported.kind = "object" -> [entry |-> exported.entry]
               [] exported.kind = "function" ->
                    [mode |-> "production", entry |-> exported.entry]
               [] OTHER -> [threw |-> "Error in " \o configPath]

\* Lines 45-60.
loadWebpackConfig(configPath) ==
    IF configPath \notin DOMAIN ConfigModules THEN getDefaultWebpackConfig
    ELSE LET exported == ConfigModules[configPath]
         IN  CASE exported.kind = "object" -> [entry |-> exported.entry]
               [] exported.kind = "function" ->
                    [mode |-> "production", entry |-> exported.entry]
               [] OTHER -> getDefaultWebpackConfig

\* What webpack hands over when it hands over statistics.
WebpackOutputs ==
    SampleStats
    \cup {[assets |-> a, chunks |-> <<>>, modules |-> <<>>] :
            a \in SeqsUpTo(AssetChoices, MaxAssets)}

WebpackError == [threw |-> "webpack error"]
NoStatsError == [threw |-> "Failed to generate webpack stats"]

InitAnalyzeBundle ==
    /\ pc = "load"
    /\ config \in [webpackConfigPath : ConfigPaths]
    /\ invoked = <<>>
    /\ failed = {}
    /\ written = <<>>
    /\ BundleAtRest
    /\ RerendersAtRest
    /\ MemoryAtRest
    /\ ReportAtRest
    /\ HostAtRest

\* Line 21.
LoadWebpackConfig ==
    /\ pc = "load"
    /\ webpackConfig' = loadWebpackConfig(config.webpackConfigPath)
    /\ pc' = "webpack"
    /\ UNCHANGED <<compiled, browser, stats, bundleAnalysis, renderEvents,
                   rerenderAnalysis, memorySnapshots, memoryAnalysis, results,
                   summaryRuns, beforeSummary, config, invoked, failed, written>>

\* Line 24 and lines 95-129: the compiler runs with the configuration loaded and
\* the promise is rejected (lines 100-102, 121-123) or resolved with the
\* statistics (line 125).
RunWebpackAnalysisFails ==
    /\ pc = "webpack"
    /\ compiled' = webpackConfig
    /\ bundleAnalysis' = WebpackError
    /\ pc' = "thrown"
    /\ UNCHANGED <<webpackConfig, browser, stats, renderEvents,
                   rerenderAnalysis, memorySnapshots, memoryAnalysis, results,
                   summaryRuns, beforeSummary, config, invoked, failed, written>>

\* Lines 105-108 and 26-28: no statistics, and analyzeBundle throws.
RunWebpackAnalysisEmpty ==
    /\ pc = "webpack"
    /\ compiled' = webpackConfig
    /\ bundleAnalysis' = NoStatsError
    /\ pc' = "thrown"
    /\ UNCHANGED <<webpackConfig, browser, stats, renderEvents,
                   rerenderAnalysis, memorySnapshots, memoryAnalysis, results,
                   summaryRuns, beforeSummary, config, invoked, failed, written>>

RunWebpackAnalysis ==
    /\ pc = "webpack"
    /\ compiled' = webpackConfig
    /\ stats' \in WebpackOutputs
    /\ pc' = "analyze"
    /\ UNCHANGED <<webpackConfig, browser, bundleAnalysis, renderEvents,
                   rerenderAnalysis, memorySnapshots, memoryAnalysis, results,
                   summaryRuns, beforeSummary, config, invoked, failed, written>>

\* Lines 31-38.
ReturnBundleAnalysis ==
    /\ pc = "analyze"
    /\ bundleAnalysis' = analyzeWebpackStats(stats)
    /\ pc' = "returned"
    /\ UNCHANGED <<webpackConfig, compiled, browser, stats, renderEvents,
                   rerenderAnalysis, memorySnapshots, memoryAnalysis, results,
                   summaryRuns, beforeSummary, config, invoked, failed, written>>

NextAnalyzeBundle ==
    \/ LoadWebpackConfig
    \/ RunWebpackAnalysisFails
    \/ RunWebpackAnalysisEmpty
    \/ RunWebpackAnalysis
    \/ ReturnBundleAnalysis

SpecAnalyzeBundle == InitAnalyzeBundle /\ [][NextAnalyzeBundle]_vars

(***************************************************************************)
(* SpecBrowser: one call of analyzeRerenders or of analyzeMemory, await by  *)
(* await.  invoked holds the analyzer called.  Every await on the browser  *)
(* or the page either resolves or rejects; a rejection goes to the catch,  *)
(* which rethrows.                                                         *)
(***************************************************************************)

MaxLoggedEvents == 3

LoggedEventChoices ==
    {[componentName |-> "App", timestamp |-> 0, duration |-> 3200,
      causeType |-> "props", details |-> "Props: items"],
     [componentName |-> "List", timestamp |-> 0, duration |-> 20000,
      causeType |-> "state", details |-> "State or props changed"]}

HeapSamples == {10 * MiB, 14 * MiB}

Called(name) == invoked = <<name>>

InitBrowser ==
    /\ pc = "start"
    /\ config \in {[projectPath |-> "/app"] @@ u :
                        u \in Optional("appUrl", {"http://localhost:3000"})}
    /\ invoked \in {<<"rerenders">>, <<"memory">>}
    /\ failed = {}
    /\ written = <<>>
    /\ BundleAtRest
    /\ RerendersAtRest
    /\ MemoryAtRest
    /\ ReportAtRest
    /\ HostAtRest

\* part_001 lines 24-26, memory-analyzer.ts lines 24-26.
RequireAppUrl ==
    /\ pc = "start"
    /\ pc' = IF HasAppUrl THEN "launch" ELSE "thrown"
    /\ UNCHANGED <<webpackConfig, compiled, browser, stats, bundleAnalysis,
                   renderEvents, rerenderAnalysis, memorySnapshots, memoryAnalysis,
                   results, summaryRuns, beforeSummary, config, invoked, failed,
                   written>>

\* part_001 lines 28-31, memory-analyzer.ts lines 28-36: puppeteer.launch.
LaunchBrowser ==
    /\ pc = "launch"
    /\ \E launched \in BOOLEAN :
        IF launched
            THEN browser' = "open" /\ pc' = "navigate"
            ELSE browser' = browser /\ pc' = "thrown"
    /\ UNCHANGED <<webpackConfig, compiled, stats, bundleAnalysis,
                   renderEvents, rerenderAnalysis, memorySnapshots, memoryAnalysis,
                   results, summaryRuns, beforeSummary, config, invoked, failed,
                   written>>

\* part_001 lines 33-60, memory-analyzer.ts lines 38-41: the page is made, set up
\* and sent to the application.
Navigate ==
    /\ pc = "navigate"
    /\ \E loaded \in BOOLEAN :
        pc' = IF ~loaded THEN "thrown"
              ELSE IF Called("rerenders") THEN "monitor" ELSE "collect"
    /\ UNCHANGED <<webpackConfig, compiled, browser, stats, bundleAnalysis,
                   renderEvents, rerenderAnalysis, memorySnapshots, memoryAnalysis,
                   results, summaryRuns, beforeSummary, config, invoked, failed,
                   written>>

\* part_001 lines 52-54: the page calls logRender, which pushes the event.  The
\* page lives until the browser is closed.
LogRender ==
    /\ Called("rerenders")
    /\ pc \in {"monitor", "close"}
    /\ browser = "open"
    /\ Len(renderEvents) < MaxLoggedEvents
    /\ \E event \in LoggedEventChoices : renderEvents' = Append(renderEvents, event)
    /\ UNCHANGED <<webpackConfig, compiled, browser, stats, bundleAnalysis,
                   rerenderAnalysis, memorySnapshots, memoryAnalysis,
                   results, summaryRuns, beforeSummary, pc, config, invoked, failed,
                   written>>

\* part_001 lines 65-68: simulateUserInteractions swallows its errors; the wait
\* that follows is awaited.
FinishMonitoring ==
    /\ pc = "monitor"
    /\ \E waited \in BOOLEAN : pc' = IF waited THEN "close" ELSE "thrown"
    /\ UNCHANGED <<webpackConfig, compiled, browser, stats, bundleAnalysis,
                   renderEvents, rerenderAnalysis, memorySnapshots, memoryAnalysis,
                   results, summaryRuns, beforeSummary, config, invoked, failed,
                   written>>

\* memory-analyzer.ts lines 48-62: the baseline and the 4 snapshots after it.
CollectSnapshot ==
    /\ pc = "collect"
    /\ \/ \E heapUsed \in HeapSamples :
            /\ memorySnapshots' = Append(memorySnapshots, Snapshot(heapUsed))
            /\ pc' = IF Len(memorySnapshots) + 1 = NumSnapshots
                        THEN "profile" ELSE "collect"
       \/ /\ memorySnapshots' = memorySnapshots
          /\ pc' = "thrown"
    /\ UNCHANGED <<webpackConfig, compiled, browser, stats, bundleAnalysis,
                   renderEvents, rerenderAnalysis, memoryAnalysis,
                   results, summaryRuns, beforeSummary, config, invoked, failed,
                   written>>

\* memory-analyzer.ts lines 67-74: the heap snapshot; the leaks and the
\* recommendations are then worked out from the snapshots, which no later
\* statement changes.
TakeHeapSnapshot ==
    /\ pc = "profile"
    /\ \E taken \in BOOLEAN : pc' = IF taken THEN "close" ELSE "thrown"
    /\ UNCHANGED <<webpackConfig, compiled, browser, stats, bundleAnalysis,
                   renderEvents, rerenderAnalysis, memorySnapshots, memoryAnalysis,
                   results, summaryRuns, beforeSummary, config, invoked, failed,
                   written>>

\* part_001 line 70, memory-analyzer.ts line 76.
CloseBrowser ==
    /\ pc = "close"
    /\ browser' = "closed"
    /\ pc' = "aggregate"
    /\ UNCHANGED <<webpackConfig, compiled, stats, bundleAnalysis,
                   renderEvents, rerenderAnalysis, memorySnapshots, memoryAnalysis,
                   results, summaryRuns, beforeSummary, config, invoked, failed,
                   written>>

\* part_001 lines 73-80.
ReturnRerenderAnalysis ==
    /\ pc = "aggregate"
    /\ Called("rerenders")
    /\ rerenderAnalysis' = analyzeRenderEvents(renderEvents)
    /\ pc' = "returned"
    /\ UNCHANGED <<webpackConfig, compiled, browser, stats, bundleAnalysis,
                   renderEvents, memorySnapshots, memoryAnalysis,
                   results, summaryRuns, beforeSummary, config, invoked, failed,
                   written>>

\* memory-analyzer.ts lines 78-93.
ReturnMemoryAnalysis ==
    /\ pc = "aggregate"
    /\ Called("memory")
    /\ memoryAnalysis' = MemoryAnalysis(memorySnapshots)
    /\ pc' = "returned"
    /\ UNCHANGED <<webpackConfig, compiled, browser, stats, bundleAnalysis,
                   renderEvents, rerenderAnalysis, memorySnapshots,
                   results, summaryRuns, beforeSummary, config, invoked, failed,
                   written>>

NextBrowser ==
    \/ RequireAppUrl
    \/ LaunchBrowser
    \/ Navigate
    \/ LogRender
    \/ FinishMonitoring
    \/ CollectSnapshot
    \/ TakeHeapSnapshot
    \/ CloseBrowser
    \/ ReturnRerenderAnalysis
    \/ ReturnMemoryAnalysis

SpecBrowser == InitBrowser /\ [][NextBrowser]_vars

(***************************************************************************)
(* Claims about the bundle analyzer (SpecBundle)                           *)
(***************************************************************************)

BundleDone == bundleAnalysis # NoValue

InputModules == OrEmptyList(stats, "modules")

SizeOfModule(i) == OrZero(InputModules[i], "size")

\* The sum of f over a finite set of positions.
RECURSIVE SumOver(_, _)
SumOver(f, S) ==
    IF S = {} THEN 0
    ELSE LET x == CHOOSE y \in S : TRUE IN f[x] + SumOver(f, S \ {x})

BundleSizeRecommendations ==
    {k \in 1..Len(bundleAnalysis.recommendations) :
        /\ bundleAnalysis.recommendations[k].severity = "critical"
        /\ bundleAnalysis.recommendations[k].category = "bundle-size"}

\* C2: the analysis holds exactly one critical/bundle-size recommendation when
\* BundleAnalysis.totalSize (the sum of the asset sizes) is over 500000, and none
\* when it is not.
C2_BundleSizeFollowsTotalSize ==
    BundleDone =>
        Cardinality(BundleSizeRecommendations)
            = IF bundleAnalysis.totalSize > 500000 THEN 1 ELSE 0

AssetSizes == [i \in 1..Len(stats.assets) |-> OrZero(stats.assets[i], "size")]

AssetName(i) == OrEmptyString(stats.assets[i], "name")

AssetsNamed(suffixes, notSuffixes) ==
    {i \in 1..Len(stats.assets) :
        /\ \E x \in suffixes : endsWith(AssetName(i), x)
        /\ \A x \in notSuffixes : ~endsWith(AssetName(i), x)}

ImageSuffixes == {".png", ".jpg", ".jpeg", ".gif", ".svg", ".webp"}

\* C3: jsSize + cssSize + imageSize + otherSize is BundleAnalysis.totalSize, the sum
\* of the asset sizes with a missing size counting 0; each asset is counted in one
\* bucket, by its suffix: .js, else .css, else an image suffix, else other.
C3_MetricsPartitionTotalSize ==
    BundleDone =>
        LET m == bundleAnalysis.metrics
        IN  /\ m.jsSize + m.cssSize + m.imageSize + m.otherSize = bundleAnalysis.totalSize
            /\ bundleAnalysis.totalSize = SumOver(AssetSizes, 1..Len(stats.assets))
            /\ m.jsSize = SumOver(AssetSizes, AssetsNamed({".js"}, {}))
            /\ m.cssSize = SumOver(AssetSizes, AssetsNamed({".css"}, {".js"}))
            /\ m.imageSize = SumOver(AssetSizes, AssetsNamed(ImageSuffixes, {".js", ".css"}))
            /\ m.otherSize = SumOver(AssetSizes,
                   (1..Len(stats.assets)) \ AssetsNamed({".js", ".css"} \cup ImageSuffixes, {}))

C3_Witness ==
    /\ BundleDone
    /\ bundleAnalysis.metrics.jsSize > 0
    /\ bundleAnalysis.metrics.otherSize > 0
    /\ \E i \in 1..Len(stats.assets) : endsWith(AssetName(i), ".js.map")

\* C6: analyzeChunks returns one ChunkSummary per input chunk, by size descending with
\* a missing size counting 0, and chunks of equal size in their input order.
C6_ChunksSortedStable ==
    BundleDone =>
        LET n    == Len(stats.chunks)
            out  == bundleAnalysis.chunks
            size == [i \in 1..n |-> OrZero(stats.chunks[i], "size")]
        IN  /\ Len(out) = n
            /\ \E order \in [1..n -> 1..n] :
                /\ \A k, l \in 1..n : k # l => order[k] # order[l]
                /\ \A k \in 1..n : out[k] = ChunkInfo(stats.chunks[order[k]])
                /\ \A k, l \in 1..n : k < l =>
                    \/ size[order[k]] > size[order[l]]
                    \/ size[order[k]] = size[order[l]] /\ order[k] < order[l]

C6_Witness ==
    /\ BundleDone
    /\ Len(stats.chunks) = 3
    /\ OrZero(stats.chunks[1], "size") < OrZero(stats.chunks[2], "size")
    /\ OrZero(stats.chunks[2], "size") = OrZero(stats.chunks[3], "size")
    /\ bundleAnalysis.chunks[1].name # bundleAnalysis.chunks[2].name
    /\ \E i \in 1..3 : "size" \notin DOMAIN stats.chunks[i]

BaseName(i) == extractModuleName(OrEmptyString(InputModules[i], "name"))

\* The modules findDuplicateModules counts under base name b.
CountedAs(b) ==
    {i \in 1..Len(InputModules) :
        /\ BaseName(i) = b
        /\ b # "" /\ ~includes(b, "webpack") /\ ~includes(b, "node_modules")}

DuplicatesNamed(b) ==
    {k \in 1..Len(bundleAnalysis.duplicates) : bundleAnalysis.duplicates[k].name = b}

InDuplicateGroup(i) ==
    \E k \in 1..Len(bundleAnalysis.duplicates) :
        \E l \in 1..Len(bundleAnalysis.duplicates[k].locations) :
            bundleAnalysis.duplicates[k].locations[l] = OrEmptyString(InputModules[i], "identifier")

RawName(i) == OrEmptyString(InputModules[i], "name")

\* C8 as stated: a module whose raw name contains "webpack" or "node_modules" is in
\* no duplicate group.
C8_RawNameNeverCounted ==
    BundleDone =>
        \A i \in 1..Len(InputModules) :
            (includes(RawName(i), "webpack") \/ includes(RawName(i), "node_modules"))
                => ~InDuplicateGroup(i)

\* C8 as amended: a module is in no duplicate group when its extracted name (the base
\* filename of a raw name that ends in .js, .jsx, .ts or .tsx, the whole raw name
\* otherwise) is empty or contains "webpack" or "node_modules"; every other module
\* whose extracted name a second such module shares is in a group, whatever
\* directory its raw name puts it in.
C8_ExtractedNameNeverCounted ==
    BundleDone =>
        \A i \in 1..Len(InputModules) :
            IF BaseName(i) = "" \/ includes(BaseName(i), "webpack")
                                \/ includes(BaseName(i), "node_modules")
                THEN ~InDuplicateGroup(i)
                ELSE InDuplicateGroup(i) <=>
                        \E j \in 1..Len(InputModules) : j # i /\ BaseName(j) = BaseName(i)

C8_Witness ==
    /\ BundleDone
    /\ \E i, j \in 1..Len(InputModules) :
        /\ i # j
        /\ RawName(i) = "./node_modules/react/index"
        /\ RawName(j) = "./node_modules/react/index"
    /\ \E i \in 1..Len(InputModules) :
        /\ includes(RawName(i), "node_modules")
        /\ BaseName(i) = "lodash"
    /\ bundleAnalysis.duplicates = <<>>

LargeInput == {i \in 1..Len(InputModules) : SizeOfModule(i) > 50000}

\* The input modules that largeModules retains.
Retained ==
    {i \in 1..Len(InputModules) :
        \E k \in 1..Len(bundleAnalysis.largeModules) :
            bundleAnalysis.largeModules[k] = ModuleInfo(InputModules[i])}

\* C9: largeModules has at most 20 entries, each of size over 50000, in descending
\* order of size, and a module left out is of size 50000 or less or no larger than
\* the smallest entry: it is the 20 largest of the modules over the threshold.
C9_LargeModulesTop20 ==
    BundleDone =>
        LET large == bundleAnalysis.largeModules
        IN  /\ Len(large) <= 20
            /\ \A k \in 1..Len(large) : large[k].size > 50000
            /\ \A k, l \in 1..Len(large) : k < l => large[k].size >= large[l].size
            /\ Cardinality(Retained) = Len(large)
            /\ Len(large) = IF Cardinality(LargeInput) < 20 THEN Cardinality(LargeInput) ELSE 20
            /\ \A i \in (1..Len(InputModules)) \ Retained :
                \/ SizeOfModule(i) <= 50000
                \/ Len(large) = 20 /\ SizeOfModule(i) <= large[20].size

C9_Witness ==
    /\ BundleDone
    /\ Len(bundleAnalysis.largeModules) = 20
    /\ Cardinality(LargeInput) > 20
    /\ \E i \in 1..Len(InputModules) : SizeOfModule(i) <= 50000
    /\ \E i \in LargeInput \ Retained : i < 20

(***************************************************************************)
(* Claims about the re-render analyzer (SpecRerender)                      *)
(***************************************************************************)

RerenderDone == rerenderAnalysis # NoValue

\* C10: totalRerenders is the number of input events and the sum of renderCount over
\* the components; for no events the result is no components, totalRerenders 0,
\* unnecessaryRerenders 0 and no recommendations.
C10_TotalRerendersIsEventCount ==
    RerenderDone =>
        LET a == rerenderAnalysis
        IN  /\ a.totalRerenders = Len(renderEvents)
            /\ a.totalRerenders =
                   SumOver([k \in 1..Len(a.components) |-> a.components[k].renderCount],
                           1..Len(a.components))
            /\ renderEvents = <<>> =>
                   /\ a.components = <<>>
                   /\ a.totalRerenders = 0
                   /\ a.unnecessaryRerenders = 0
                   /\ a.recommendations = <<>>

C10_Witness ==
    /\ RerenderDone
    /\ rerenderAnalysis.totalRerenders = 7
    /\ Len(rerenderAnalysis.components) = 2
    /\ rerenderAnalysis.components[1].renderCount = 6
    /\ renderEvents[1].componentName = rerenderAnalysis.components[2].name

(***************************************************************************)
(* Claims about the rules of the re-render analyzer (SpecRerenderRules)    *)
(***************************************************************************)

Components == rerenderAnalysis.components

\* The input events of the component at position k of the analysis, in arrival order.
EventsOf(k) ==
    SelectSeq(renderEvents, LAMBDA event : event.componentName = Components[k].name)

\* The sum of the durations, in microseconds, of the events of component k.
DurationSum(k) ==
    SumOver([i \in 1..Len(EventsOf(k)) |-> EventsOf(k)[i].duration], 1..Len(EventsOf(k)))

\* C21: a component is flagged isUnnecessary iff it rendered more than 5 times with
\* a mean duration under 5 ms; unnecessaryRerenders is the sum of renderCount over
\* the flagged components, so it lies between 0 and totalRerenders.
C21_UnnecessaryIffManyCheapRenders ==
    RerenderDone =>
        /\ \A k \in 1..Len(Components) :
            /\ Components[k].renderCount = Len(EventsOf(k))
            /\ Components[k].isUnnecessary
                <=> /\ Len(EventsOf(k)) > 5
                    /\ DurationSum(k) < 5 * 1000 * Len(EventsOf(k))
        /\ rerenderAnalysis.unnecessaryRerenders =
                SumOver([k \in 1..Len(Components) |-> Components[k].renderCount],
                        {k \in 1..Len(Components) : Components[k].isUnnecessary})
        /\ rerenderAnalysis.unnecessaryRerenders >= 0
        /\ rerenderAnalysis.unnecessaryRerenders <= rerenderAnalysis.totalRerenders

\* One component is flagged and another, with as many renders, is not: the count
\* of unnecessary renders is the first one's and under the total.
C21_Witness ==
    /\ RerenderDone
    /\ \E j, k \in 1..Len(Components) :
        /\ Components[j].isUnnecessary
        /\ ~Components[k].isUnnecessary
        /\ Components[k].renderCount > 5
    /\ rerenderAnalysis.unnecessaryRerenders > 0
    /\ rerenderAnalysis.unnecessaryRerenders < rerenderAnalysis.totalRerenders

\* How many events of component k have the cause `type`.
CauseEvents(k, type) ==
    Cardinality({i \in 1..Len(renderEvents) :
                    /\ renderEvents[i].componentName = Components[k].name
                    /\ renderEvents[i].causeType = type})

\* Component k has over 10 renders and at most 4 such components stand before it.
AmongFirstFiveFrequent(k) ==
    /\ Len(EventsOf(k)) > 10
    /\ Cardinality({j \in 1..(k - 1) : Len(EventsOf(j)) > 10}) < 5

\* The positions of the recommendations of a category with the given title.
RerenderRecommendationsAt(category, title) ==
    {r \in 1..Len(rerenderAnalysis.recommendations) :
        /\ rerenderAnalysis.recommendations[r].category = category
        /\ rerenderAnalysis.recommendations[r].title = title}

FrequentTitle(k) == "Component \"" \o Components[k].name \o "\" re-renders frequently"
StateTitle(k) == "Component \"" \o Components[k].name \o "\" has frequent state updates"
SlowTitle(k) == "Component \"" \o Components[k].name \o "\" renders slowly"

\* The text whose number n is the whole part of 0.6 * renderCount.
IsFlooredImpact(text, renderCount) ==
    \E n \in 0..renderCount :
        /\ 10 * n <= 6 * renderCount
        /\ 6 * renderCount < 10 * (n + 1)
        /\ text = "Could reduce renders by " \o ToString(n) \o " times"

\* C22: among the first 5 components with over 10 renders a component gets one
\* warning/excessive-renders recommendation, with impact floor(renderCount * 0.6),
\* iff over 5 of its renders are due to props, and independently one
\* warning/state-updates recommendation iff over 5 are due to state; every other
\* component gets neither.  The 15 ProductList renders of the test events are
\* flagged unnecessary and get one excessive-renders recommendation of impact 9.
C22_ExcessiveRendersRule ==
    RerenderDone =>
        /\ \A k \in 1..Len(Components) :
            /\ Cardinality(RerenderRecommendationsAt("excessive-renders", FrequentTitle(k)))
                    = IF AmongFirstFiveFrequent(k) /\ CauseEvents(k, "props") > 5
                        THEN 1 ELSE 0
            /\ Cardinality(RerenderRecommendationsAt("state-updates", StateTitle(k)))
                    = IF AmongFirstFiveFrequent(k) /\ CauseEvents(k, "state") > 5
                        THEN 1 ELSE 0
            /\ \A r \in RerenderRecommendationsAt("excessive-renders", FrequentTitle(k)) :
                    /\ rerenderAnalysis.recommendations[r].severity = "warning"
                    /\ IsFlooredImpact(rerenderAnalysis.recommendations[r].estimatedImpact,
                                       Len(EventsOf(k)))
            /\ \A r \in RerenderRecommendationsAt("state-updates", StateTitle(k)) :
                    rerenderAnalysis.recommendations[r].severity = "warning"
        /\ \A r \in 1..Len(rerenderAnalysis.recommendations) :
                rerenderAnalysis.recommendations[r].category
                        \in {"excessive-renders", "state-updates"}
                    => \E k \in 1..Len(Components) :
                            rerenderAnalysis.recommendations[r].title
                                \in {FrequentTitle(k), StateTitle(k)}
        /\ renderEvents = createMockRenderEvents =>
                /\ Components[1].name = "ProductList"
                /\ Components[1].isUnnecessary
                /\ \E r \in 1..Len(rerenderAnalysis.recommendations) :
                        {q \in 1..Len(rerenderAnalysis.recommendations) :
                            rerenderAnalysis.recommendations[q].category
                                = "excessive-renders"} = {r}
                        /\ rerenderAnalysis.recommendations[r].title = FrequentTitle(1)
                        /\ rerenderAnalysis.recommendations[r].estimatedImpact
                                = "Could reduce renders by 9 times"

\* Six components have over 10 renders for their props: the first five get the
\* recommendation and the sixth does not.
C22_Witness ==
    /\ RerenderDone
    /\ Cardinality({k \in 1..Len(Components) :
            Len(EventsOf(k)) > 10 /\ CauseEvents(k, "props") > 5}) > 5
    /\ Cardinality({r \in 1..Len(rerenderAnalysis.recommendations) :
            rerenderAnalysis.recommendations[r].category = "excessive-renders"}) = 5

\* Component k takes over 16 ms a render in the mean.
IsSlow(k) == DurationSum(k) > 16 * 1000 * Len(EventsOf(k))

\* C23: each of the first 3 components whose mean duration is over 16 ms gets one
\* critical/slow-renders recommendation and no other component gets one; these
\* recommendations stand after every warning of the first rule.
C23_SlowRendersRule ==
    RerenderDone =>
        /\ \A k \in 1..Len(Components) :
            /\ Cardinality(RerenderRecommendationsAt("slow-renders", SlowTitle(k)))
                    = IF IsSlow(k) /\ Cardinality({j \in 1..(k - 1) : IsSlow(j)}) < 3
                        THEN 1 ELSE 0
            /\ \A r \in RerenderRecommendationsAt("slow-renders", SlowTitle(k)) :
                    rerenderAnalysis.recommendations[r].severity = "critical"
        /\ \A r \in 1..Len(rerenderAnalysis.recommendations) :
                rerenderAnalysis.recommendations[r].category = "slow-renders"
                    => \E k \in 1..Len(Components) :
                            rerenderAnalysis.recommendations[r].title = SlowTitle(k)
        /\ \A q, r \in 1..Len(rerenderAnalysis.recommendations) :
                /\ rerenderAnalysis.recommendations[q].category
                        \in {"excessive-renders", "state-updates"}
                /\ rerenderAnalysis.recommendations[r].category = "slow-renders"
                => q < r

\* Four components are slow: three recommendations follow the warnings.
C23_Witness ==
    /\ RerenderDone
    /\ Cardinality({k \in 1..Len(Components) : IsSlow(k)}) > 3
    /\ Cardinality({r \in 1..Len(rerenderAnalysis.recommendations) :
            rerenderAnalysis.recommendations[r].category = "slow-renders"}) = 3
    /\ \E q \in 1..Len(rerenderAnalysis.recommendations) :
            rerenderAnalysis.recommendations[q].severity = "warning"

\* The positions, in the input, of the events of component k that have the cause.
CausePositions(k, type) ==
    {i \in 1..Len(renderEvents) :
        /\ renderEvents[i].componentName = Components[k].name
        /\ renderEvents[i].causeType = type}

\* C27: the causes of a component hold one entry for each cause type found among
\* its events, counting the events of the type and carrying the details of the
\* earliest of them; the counts add up to renderCount.
C27_CausesPerType ==
    RerenderDone =>
        \A k \in 1..Len(Components) :
            LET causes == Components[k].causes
            IN  /\ \A type \in {"props", "state", "context", "parent"} :
                    Cardinality({c \in 1..Len(causes) : causes[c].type = type})
                        = IF CausePositions(k, type) # {} THEN 1 ELSE 0
                /\ \A c \in 1..Len(causes) :
                    /\ causes[c].count = Cardinality(CausePositions(k, causes[c].type))
                    /\ \E i \in CausePositions(k, causes[c].type) :
                        /\ \A j \in CausePositions(k, causes[c].type) : i <= j
                        /\ causes[c].details = renderEvents[i].details
                /\ SumOver([c \in 1..Len(causes) |-> causes[c].count], 1..Len(causes))
                        = Components[k].renderCount

\* A component rendered for three causes, several times for one of them.
C27_Witness ==
    /\ RerenderDone
    /\ \E k \in 1..Len(Components) :
        /\ Len(Components[k].causes) = 3
        /\ \E c \in 1..Len(Components[k].causes) : Components[k].causes[c].count > 5

(***************************************************************************)
(* Claims about calculateSummary (SpecSummary)                             *)
(***************************************************************************)

PresentRecommendations(name) ==
    IF name \in DOMAIN results.analyses
            /\ "recommendations" \in DOMAIN results.analyses[name]
        THEN results.analyses[name].recommendations
        ELSE <<>>

Concatenation ==
    PresentRecommendations("bundle") \o PresentRecommendations("rerenders")
        \o PresentRecommendations("memory")

WithSeverity(severity) ==
    {k \in 1..Len(Concatenation) : Concatenation[k].severity = severity}

\* C4: after calculateSummary, whichever analyses are present, suggestions lists
\* "category: title" for the recommendations of bundle, rerenders, memory, in that
\* order; totalIssues is their number, criticalIssues and warnings the number of
\* those of severity critical and warning.
C4_SummaryCountsConcatenation ==
    summaryRuns >= 1 =>
        /\ Len(results.summary.suggestions) = Len(Concatenation)
        /\ \A k \in 1..Len(Concatenation) :
            results.summary.suggestions[k]
                = Concatenation[k].category \o ": " \o Concatenation[k].title
        /\ results.summary.totalIssues = Len(Concatenation)
        /\ results.summary.criticalIssues = Cardinality(WithSeverity("critical"))
        /\ results.summary.warnings = Cardinality(WithSeverity("warning"))

C4_Witness ==
    /\ summaryRuns >= 1
    /\ DOMAIN results.analyses = {"bundle", "rerenders", "memory"}
    /\ WithSeverity("info") # {}
    /\ results.summary.criticalIssues >= 2
    /\ results.summary.warnings >= 2
    /\ results.summary.suggestions[1] = "bundle-size: Bundle size exceeds recommended limit"

\* C5: calculateSummary applied a second time leaves the summary of the first
\* application, whatever summary the result held before the first; it changes no
\* field of the result but summary.
C5_SummaryIdempotent ==
    /\ summaryRuns >= 1 =>
        /\ DOMAIN results = DOMAIN beforeSummary
        /\ \A f \in DOMAIN results \ {"summary"} : results[f] = beforeSummary[f]
    /\ summaryRuns >= 2 => results.summary = beforeSummary.summary

C5_Witness ==
    /\ summaryRuns = 2
    /\ results.summary.totalIssues >= 3
    /\ results.summary = beforeSummary.summary

\* Every analysis of the result is what one of the three analyzers returns.
ProducedByAnalyzers ==
    /\ "bundle" \in DOMAIN results.analyses =>
            results.analyses.bundle \in {analyzeWebpackStats(st) : st \in SampleStats}
    /\ "rerenders" \in DOMAIN results.analyses =>
            results.analyses.rerenders \in {analyzeRenderEvents(ev) : ev \in SampleEvents}
    /\ "memory" \in DOMAIN results.analyses =>
            results.analyses.memory \in {MemoryAnalysis(sn) : sn \in SampleSnapshots}

\* C30: after calculateSummary totalIssues is at least criticalIssues + warnings,
\* and equal to it when the analyses are those the three analyzers return, none of
\* which holds a recommendation of severity info.
C30_TotalIsCriticalPlusWarnings ==
    summaryRuns >= 1 =>
        /\ results.summary.totalIssues
                >= results.summary.criticalIssues + results.summary.warnings
        /\ ProducedByAnalyzers =>
            /\ WithSeverity("info") = {}
            /\ results.summary.totalIssues
                    = results.summary.criticalIssues + results.summary.warnings

\* The three analyzers have returned recommendations of both severities.
C30_Witness ==
    /\ summaryRuns >= 1
    /\ ProducedByAnalyzers
    /\ DOMAIN results.analyses = {"bundle", "rerenders", "memory"}
    /\ results.summary.criticalIssues >= 3
    /\ results.summary.warnings >= 3
    /\ results.summary.totalIssues
            = results.summary.criticalIssues + results.summary.warnings

(***************************************************************************)
(* Claims about the analyze command (SpecCommand)                          *)
(***************************************************************************)

WasInvoked(name) == \E k \in 1..Len(invoked) : invoked[k] = name

\* C1: when a selected analyzer throws, the other selected analyzers still run and
\* the summary and report are still produced from those that succeeded.
C1_FailedAnalyzerDoesNotBlock ==
    (Terminated /\ failed # {}) =>
        /\ \A name \in {"bundle", "rerenders", "memory"} : CalledWhen(name) => WasInvoked(name)
        /\ summaryRuns >= 1

AnalyzerNames == {"bundle", "rerenders", "memory"}

\* The analyzer was called and has returned its analysis.
HasReturned(name) ==
    /\ WasInvoked(name)
    /\ pc # name \o "-running"
    /\ name \notin failed

\* The command line asks for the analyzer and gives what it needs.
SelectedAndRunnable(name) ==
    /\ config.analyzers[name]
    /\ name = "bundle" \/ ("appUrl" \in DOMAIN config /\ config.appUrl # "")

\* C24: analyses.bundle is there iff the bundle analyzer was selected and has run,
\* analyses.rerenders and analyses.memory iff the analyzer was selected, a URL was
\* given and it has run; when the report is generated each is there iff selected
\* (with a URL for the two).  Without a URL the two are never called, nothing
\* fails because of them and the run goes on to the report.
C24_AnalysesPresentIffSelected ==
    results # NoResults =>
        /\ \A name \in AnalyzerNames :
            /\ name \in DOMAIN results.analyses
                    <=> SelectedAndRunnable(name) /\ HasReturned(name)
            /\ summaryRuns >= 1 =>
                    (name \in DOMAIN results.analyses <=> SelectedAndRunnable(name))
        /\ ~HasAppUrl =>
            /\ ~WasInvoked("rerenders")
            /\ ~WasInvoked("memory")
            /\ failed \subseteq {"bundle"}
            /\ pc \notin {"rerenders-running", "memory-running"}
            /\ (pc = "exit1" /\ failed = {}) => summaryRuns >= 1

\* All three analyzers are selected and no URL is given: the report is written
\* with the bundle analysis alone.
C24_Witness ==
    /\ pc = "done"
    /\ ~HasAppUrl
    /\ \A name \in AnalyzerNames : config.analyzers[name]
    /\ DOMAIN results.analyses = {"bundle"}
    /\ written = <<"json", "html", "md">>

AnalyzerRank == [bundle |-> 1, rerenders |-> 2, memory |-> 3]

\* C25: the analyzers are called one after the other in the order bundle,
\* rerenders, memory, each after the ones before it have returned; the summary is
\* calculated once they have all returned, from their analyses, and before any of
\* the JSON, HTML and Markdown reports is written.
C25_SequentialThenSummaryThenReports ==
    /\ \A i, j \in 1..Len(invoked) :
            i < j => AnalyzerRank[invoked[i]] < AnalyzerRank[invoked[j]]
    /\ \A i, j \in 1..Len(invoked) :
            i < j => invoked[i] \in failed \/ invoked[i] \in DOMAIN results.analyses
    /\ summaryRuns >= 1 =>
        /\ failed = {}
        /\ \A name \in AnalyzerNames :
                SelectedAndRunnable(name) => name \in DOMAIN results.analyses
        /\ \A k \in 1..Len(invoked) : invoked[k] \in DOMAIN results.analyses
        /\ beforeSummary.analyses = results.analyses
    /\ written # <<>> => summaryRuns >= 1
    /\ written \in {<<>>, <<"json">>, <<"json", "html">>, <<"json", "html", "md">>}

\* The three analyzers have run and the three reports are written.
C25_Witness ==
    /\ pc = "done"
    /\ invoked = <<"bundle", "rerenders", "memory">>
    /\ summaryRuns = 1
    /\ written = <<"json", "html", "md">>

(***************************************************************************)
(* Claims about analyzeBundle (SpecAnalyzeBundle)                          *)
(***************************************************************************)

\* The configuration file is not there, or loading it throws.
ConfigUnusable ==
    \/ config.webpackConfigPath \notin DOMAIN ConfigModules
    \/ ConfigModules[config.webpackConfigPath].kind \in {"throws", "function-throws"}

\* C26: when the configuration file does not exist or loading it throws,
\* loadWebpackConfig returns the default configuration, webpack is run with it,
\* and analyzeBundle returns a BundleAnalysis; it throws only what the webpack run
\* itself makes it throw.
C26_MissingConfigFallsBackToDefault ==
    (pc # "load" /\ ConfigUnusable) =>
        /\ webpackConfig = getDefaultWebpackConfig
        /\ pc # "webpack" => compiled = getDefaultWebpackConfig
        /\ pc = "thrown" => bundleAnalysis \in {WebpackError, NoStatsError}
        /\ pc = "returned" =>
                /\ DOMAIN bundleAnalysis = {"totalSize", "chunks", "largeModules",
                                            "duplicates", "recommendations", "metrics"}
                /\ bundleAnalysis = analyzeWebpackStats(stats)

\* analyzeBundle has returned an analysis for the path of the test, which does not
\* exist.
C26_Witness ==
    /\ pc = "returned"
    /\ config.webpackConfigPath = "/nonexistent/webpack.config.js"
    /\ compiled = getDefaultWebpackConfig
    /\ bundleAnalysis.totalSize > 0

(***************************************************************************)
(* Claims about the headless browser (SpecBrowser)                         *)
(***************************************************************************)

\* C29: when analyzeRerenders or analyzeMemory has returned or thrown, no browser
\* it launched is still open; and analyzeRerenders aggregates the render events
\* with its browser closed, the analysis being that of the events as they stay.
C29_BrowserClosedOnEveryPath ==
    /\ pc \in {"returned", "thrown"} => browser # "open"
    /\ (Called("rerenders") /\ pc \in {"aggregate", "returned"}) => browser = "closed"
    /\ (Called("rerenders") /\ pc = "returned") =>
            rerenderAnalysis = analyzeRenderEvents(renderEvents)

(***************************************************************************)
(* Claims about the memory analyzer (SpecMemory)                           *)
(***************************************************************************)

\* The aggregation has run on the snapshots of the state.
MemoryDone == memoryAnalysis # NoValue

\* It has run and returned a MemoryAnalysis.
MemoryBuilt == MemoryDone /\ memoryAnalysis # TypeError

SnapshotCount == Len(memorySnapshots)

FirstHeapUsed == memorySnapshots[1].heapUsed

LastHeapUsed == memorySnapshots[SnapshotCount].heapUsed

\* C11: the memory aggregation is total: on every snapshot array, the empty one
\* and the one-element one included, it completes without an error, and on those
\* two it gives retainedSize 0.
C11_MemoryAggregationTotal ==
    MemoryDone =>
        /\ memoryAnalysis # TypeError
        /\ SnapshotCount <= 1 => memoryAnalysis.retainedSize = 0

\* max(0, last.heapUsed - first.heapUsed) with at least 2 snapshots, 0 otherwise
ExpectedRetainedSize ==
    IF SnapshotCount >= 2
        THEN (IF LastHeapUsed - FirstHeapUsed >= 0 THEN LastHeapUsed - FirstHeapUsed ELSE 0)
        ELSE 0

\* C13: calculateRetainedSize gives, on every snapshot array, the growth from the
\* first to the last snapshot when there are at least 2 of them and it is
\* positive, and 0 otherwise; the MemoryAnalysis carries that value, which is
\* never negative, as retainedSize and the last snapshot's heapUsed as heapSize.
C13_RetainedSizeNeverNegative ==
    /\ calculateRetainedSize(memorySnapshots) = ExpectedRetainedSize
    /\ MemoryBuilt =>
        /\ memoryAnalysis.retainedSize = ExpectedRetainedSize
        /\ memoryAnalysis.retainedSize >= 0
        /\ memoryAnalysis.heapSize = LastHeapUsed

\* The heap shrank from the first to the last snapshot, and the analysis is built.
C13_Witness ==
    /\ MemoryBuilt
    /\ SnapshotCount >= 2
    /\ LastHeapUsed < FirstHeapUsed
    /\ memoryAnalysis.retainedSize = 0
    /\ memoryAnalysis.heapSize = LastHeapUsed

\* The leaks of the analysis that have the given type, in their order.
LeaksOfType(type) ==
    SelectSeq(memoryAnalysis.leaks, LAMBDA leak : leak.type = type)

\* The sum of the growth from each snapshot to the next.
DeltaSum ==
    SumOver([i \in 1..(SnapshotCount - 1) |->
                memorySnapshots[i + 1].heapUsed - memorySnapshots[i].heapUsed],
            1..(SnapshotCount - 1))

\* There are at least 3 snapshots and the mean of the SnapshotCount - 1 deltas is
\* over 1048576.
GrowsConsistently == SnapshotCount >= 3 /\ DeltaSum > 1048576 * (SnapshotCount - 1)

\* At most one consistent-growth leak, critical, and one exactly when the rule applies.
ConsistentGrowthEmittedIff ==
    /\ Len(LeaksOfType("consistent-growth")) = (IF GrowsConsistently THEN 1 ELSE 0)
    /\ \A k \in 1..Len(LeaksOfType("consistent-growth")) :
            LeaksOfType("consistent-growth")[k].severity = "critical"

\* C14 as stated: a critical consistent-growth leak is emitted iff there are at
\* least 3 snapshots and the mean of the consecutive deltas is over 1048576, and
\* its retainedSize is the mean delta times the number of snapshots, that is,
\* retainedSize * (count - 1) = sum of the deltas * count.
C14_ConsistentGrowthExactProjection ==
    MemoryBuilt =>
        /\ ConsistentGrowthEmittedIff
        /\ GrowsConsistently =>
            LeaksOfType("consistent-growth")[1].retainedSize * (SnapshotCount - 1)
                = DeltaSum * SnapshotCount

\* C14 amended: the leak is emitted under the same condition, and its
\* retainedSize is the mean delta times the number of snapshots rounded down to a
\* whole number of bytes.
C14_ConsistentGrowthFlooredProjection ==
    MemoryBuilt =>
        /\ ConsistentGrowthEmittedIff
        /\ GrowsConsistently =>
            LET projected == LeaksOfType("consistent-growth")[1].retainedSize
            IN  /\ projected * (SnapshotCount - 1) <= DeltaSum * SnapshotCount
                /\ (projected + 1) * (SnapshotCount - 1) > DeltaSum * SnapshotCount

\* Snapshots of 10, 12, 14 and 16 MiB: the leak projects 8 MiB while the analysis
\* retains 6 MiB.
C14_Witness ==
    /\ MemoryBuilt
    /\ [i \in 1..SnapshotCount |-> memorySnapshots[i].heapUsed]
            = <<10485760, 12582912, 14680064, 16777216>>
    /\ Len(LeaksOfType("consistent-growth")) = 1
    /\ LeaksOfType("consistent-growth")[1].retainedSize = 8388608
    /\ memoryAnalysis.retainedSize = 6291456

\* C28: with 3 snapshots or more, the consistent-growth leak is emitted iff
\* (last.heapUsed - first.heapUsed) / (n - 1) is over 1048576, whatever the
\* snapshots in between are.
C28_ConsistentGrowthFromEndsOnly ==
    (MemoryBuilt /\ SnapshotCount >= 3) =>
        /\ Len(LeaksOfType("consistent-growth")) <= 1
        /\ Len(LeaksOfType("consistent-growth")) = 1
                <=> LastHeapUsed - FirstHeapUsed > 1048576 * (SnapshotCount - 1)

\* The heap falls in one step and the leak is emitted all the same.
C28_Witness ==
    /\ MemoryBuilt
    /\ SnapshotCount >= 3
    /\ \E i \in 1..(SnapshotCount - 1) :
            memorySnapshots[i + 1].heapUsed < memorySnapshots[i].heapUsed
    /\ Len(LeaksOfType("consistent-growth")) = 1

\* (last.heapUsed - first.heapUsed) / first.heapUsed is over 50%: the increase is
\* over half of the first value; from a first value of 0 any increase is.
IncreasesLargely ==
    IF FirstHeapUsed = 0 THEN LastHeapUsed > 0
    ELSE 2 * (LastHeapUsed - FirstHeapUsed) > FirstHeapUsed

\* C15: a warning large-increase leak is emitted iff the heap grew from the first
\* to the last snapshot by strictly more than 50% of the first, with retainedSize
\* the growth; growth of exactly 50%, no growth and a shrinking heap emit none;
\* with a first heapUsed of 0 the rule still gives an answer (a leak iff the last
\* heapUsed is positive).
C15_LargeIncreaseOverHalf ==
    MemoryBuilt =>
        /\ Len(LeaksOfType("large-increase")) = (IF IncreasesLargely THEN 1 ELSE 0)
        /\ \A k \in 1..Len(LeaksOfType("large-increase")) :
            /\ LeaksOfType("large-increase")[k].severity = "warning"
            /\ LeaksOfType("large-increase")[k].retainedSize = LastHeapUsed - FirstHeapUsed
        /\ 2 * (LastHeapUsed - FirstHeapUsed) <= FirstHeapUsed
                => LeaksOfType("large-increase") = <<>>

\* The heap grew by one byte more than 50%, and the leak is there.
C15_Witness ==
    /\ MemoryBuilt
    /\ FirstHeapUsed = 10485760
    /\ LastHeapUsed = 15728641
    /\ Len(LeaksOfType("large-increase")) = 1
    /\ LeaksOfType("large-increase")[1].retainedSize = 5242881

\* The place of a leak type in the order the rules are evaluated in.
LeakRank ==
    [type \in {"consistent-growth", "large-increase", "detached-dom", "event-listeners"} |->
        CASE type = "consistent-growth" -> 1
          [] type = "large-increase"    -> 2
          [] type = "detached-dom"      -> 3
          [] type = "event-listeners"   -> 4]

\* C16: whenever leak detection completes, the leak list ends with one
\* detached-dom leak followed by one event-listeners leak, both warnings with
\* their fixed sizes and objects, there is no other leak of these two types, and
\* the consistent-growth and large-increase leaks, if any, come before them in
\* that order.
C16_FixedLeaksAppendedLast ==
    MemoryBuilt =>
        LET leaks == memoryAnalysis.leaks
            n     == Len(leaks)
        IN  /\ n >= 2
            /\ \A k \in 1..n : leaks[k].type \in DOMAIN LeakRank
            /\ \A j, k \in 1..n : j < k => LeakRank[leaks[j].type] < LeakRank[leaks[k].type]
            /\ leaks[n - 1].type = "detached-dom"
            /\ leaks[n - 1].severity = "warning"
            /\ leaks[n - 1].retainedSize = 524288
            /\ [o \in 1..Len(leaks[n - 1].objects) |-> leaks[n - 1].objects[o].count] = <<15, 8>>
            /\ leaks[n].type = "event-listeners"
            /\ leaks[n].severity = "warning"
            /\ leaks[n].retainedSize = 262144
            /\ [o \in 1..Len(leaks[n].objects) |-> leaks[n].objects[o].count] = <<42>>
            /\ Len(LeaksOfType("detached-dom")) = 1
            /\ Len(LeaksOfType("event-listeners")) = 1

\* Both measured leaks were found, and the two fixed ones follow them.
C16_Witness ==
    /\ MemoryBuilt
    /\ [k \in 1..Len(memoryAnalysis.leaks) |-> memoryAnalysis.leaks[k].type]
            = <<"consistent-growth", "large-increase", "detached-dom", "event-listeners">>

\* The leaks of the analysis whose severity is critical, in their order.
CriticalLeaks ==
    SelectSeq(memoryAnalysis.leaks, LAMBDA leak : leak.severity = "critical")

\* <<severity, category>> of each memory recommendation, in order.
MemoryRecommendationKinds ==
    [k \in 1..Len(memoryAnalysis.recommendations) |->
        <<memoryAnalysis.recommendations[k].severity,
          memoryAnalysis.recommendations[k].category>>]

\* The kinds the claim lists, for the leaks and the snapshots of the state.
ExpectedMemoryRecommendationKinds ==
    [k \in 1..Len(CriticalLeaks) |-> <<"critical", "memory-leak">>]
        \o (IF LeaksOfType("detached-dom") # <<>>
                THEN << <<"warning", "detached-dom">> >> ELSE <<>>)
        \o (IF LeaksOfType("event-listeners") # <<>>
                THEN << <<"warning", "event-listeners">> >> ELSE <<>>)
        \o (IF LastHeapUsed > 52428800
                THEN << <<"warning", "high-memory">> >> ELSE <<>>)

\* C17: the memory recommendations are, in this order, one critical/memory-leak
\* recommendation per critical leak (titled after the leak's type), one
\* warning/detached-dom iff there is a detached-dom leak, one
\* warning/event-listeners iff there is an event-listeners leak, and one
\* warning/high-memory iff the last heapUsed is over 52428800; a large-increase
\* leak, a warning, adds none.
C17_MemoryRecommendationsInOrder ==
    MemoryBuilt =>
        /\ MemoryRecommendationKinds = ExpectedMemoryRecommendationKinds
        /\ \A k \in 1..Len(CriticalLeaks) :
            memoryAnalysis.recommendations[k].title
                = "Memory leak detected: " \o CriticalLeaks[k].type
        /\ \A k \in 1..Len(memoryAnalysis.recommendations) :
            memoryAnalysis.recommendations[k].category = "memory-leak"
                => memoryAnalysis.recommendations[k].title # "Memory leak detected: large-increase"

\* A critical leak, a large-increase leak and a last heapUsed over the limit: four
\* recommendations, none of them for the large increase.
C17_Witness ==
    /\ MemoryBuilt
    /\ Len(CriticalLeaks) = 1
    /\ Len(LeaksOfType("large-increase")) = 1
    /\ LastHeapUsed > 52428800
    /\ MemoryRecommendationKinds
            = << <<"critical", "memory-leak">>, <<"warning", "detached-dom">>,
                 <<"warning", "event-listeners">>, <<"warning", "high-memory">> >>

(***************************************************************************)
(* Further claims about the bundle analyzer (SpecBundle)                   *)
(***************************************************************************)

\* The statistics of the state have no assets, no chunks and no modules.
EmptyStats == stats.assets = <<>> /\ stats.chunks = <<>> /\ OrEmptyList(stats, "modules") = <<>>

\* C12: on statistics whose assets, chunks and modules are all empty the bundle
\* analysis does not fail, and it returns totalSize 0, no chunks, no large
\* modules, no duplicates, the four metrics 0 and no recommendations.
C12_EmptyStatsGiveEmptyAnalysis ==
    BundleDone /\ EmptyStats =>
        bundleAnalysis =
            [totalSize       |-> 0,
             chunks          |-> <<>>,
             largeModules    |-> <<>>,
             duplicates      |-> <<>>,
             recommendations |-> <<>>,
             metrics         |-> [jsSize |-> 0, cssSize |-> 0, imageSize |-> 0, otherSize |-> 0]]

\* The analysis of statistics with three empty lists has been returned.
C12_Witness ==
    /\ BundleDone
    /\ stats = [assets |-> <<>>, chunks |-> <<>>, modules |-> <<>>]
    /\ bundleAnalysis.totalSize = 0
    /\ bundleAnalysis.recommendations = <<>>

(***************************************************************************)
(* Claims about the bundle recommendations (SpecRecommendations)           *)
(***************************************************************************)

BundleRecommendations == bundleAnalysis.recommendations

\* The input chunks whose size, 0 when missing, is over 250000.
LargeInputChunks ==
    {i \in 1..Len(stats.chunks) : OrZero(stats.chunks[i], "size") > 250000}

\* The positions of the recommendations of a severity and category.
RecommendationsOfKind(severity, category) ==
    {k \in 1..Len(BundleRecommendations) :
        /\ BundleRecommendations[k].severity = severity
        /\ BundleRecommendations[k].category = category}

RecommendationTitles(recs) == [k \in 1..Len(recs) |-> recs[k].title]

\* The recommendations after the bundle-size one, if the list starts with one.
AfterBundleSize ==
    IF BundleRecommendations # <<>> /\ BundleRecommendations[1].category = "bundle-size"
        THEN Tail(BundleRecommendations)
        ELSE BundleRecommendations

\* The chunks of the analysis that are over 250000, in the order of the analysis.
LargeChunks == SelectSeq(bundleAnalysis.chunks, LAMBDA chunk : chunk.size > 250000)

TopLargeModules == SliceFirst(bundleAnalysis.largeModules, 3)

TopDuplicates == SliceFirst(bundleAnalysis.duplicates, 3)

\* s[k].field never increases along s.
Descending(s, field) == \A j, k \in 1..Len(s) : j < k => s[j][field] >= s[k][field]

\* C19: the list is the bundle-size recommendation, if any, then one chunk-size
\* recommendation per chunk over 250000 in the chunks' size-descending order, then
\* large-module recommendations for the first 3 of largeModules, which are the
\* largest, then duplicate-modules recommendations for the first 3 of duplicates,
\* which have the greatest summed sizes; every critical recommendation precedes
\* every warning.
C19_RecommendationsInRuleOrder ==
    BundleDone =>
        /\ RecommendationTitles(AfterBundleSize) =
                [k \in 1..Len(LargeChunks) |-> "Large chunk detected: " \o LargeChunks[k].name]
                \o [k \in 1..Len(TopLargeModules) |-> "Large module: " \o TopLargeModules[k].name]
                \o [k \in 1..Len(TopDuplicates) |-> "Duplicate module: " \o TopDuplicates[k].name]
        /\ [k \in 1..Len(AfterBundleSize) |-> AfterBundleSize[k].category] =
                [k \in 1..Len(LargeChunks) |-> "chunk-size"]
                \o [k \in 1..Len(TopLargeModules) |-> "large-module"]
                \o [k \in 1..Len(TopDuplicates) |-> "duplicate-modules"]
        /\ Descending(LargeChunks, "size")
        /\ Descending(bundleAnalysis.largeModules, "size")
        /\ Descending(bundleAnalysis.duplicates, "totalSize")
        /\ \A k \in 1..Len(BundleRecommendations) :
            BundleRecommendations[k].severity =
                (IF BundleRecommendations[k].category = "bundle-size" THEN "critical" ELSE "warning")
        /\ \A j, k \in 1..Len(BundleRecommendations) :
            BundleRecommendations[j].severity = "critical"
                /\ BundleRecommendations[k].severity = "warning" => j < k

\* All four rules fired, with more large modules and more duplicates than are
\* recommended, and the duplicates not in the order they were first seen in.
C19_Witness ==
    /\ BundleDone
    /\ Len(BundleRecommendations) = 1 + Len(LargeChunks) + 3 + 3
    /\ BundleRecommendations[1].category = "bundle-size"
    /\ Len(LargeChunks) >= 2
    /\ LargeChunks[1].size > LargeChunks[Len(LargeChunks)].size
    /\ Len(bundleAnalysis.largeModules) > 3
    /\ Len(bundleAnalysis.duplicates) > 3
    /\ RecommendationTitles(SubSeq(BundleRecommendations,
                                   Len(BundleRecommendations) - 2, Len(BundleRecommendations)))
            = <<"Duplicate module: mod3", "Duplicate module: mod2", "Duplicate module: mod1">>

\* C20: there are as many warning/chunk-size recommendations as chunks with size
\* over 250000, however many those are, and no other chunk-size recommendation.
C20_OneWarningPerLargeChunk ==
    BundleDone =>
        /\ Cardinality(RecommendationsOfKind("warning", "chunk-size"))
                = Cardinality(LargeInputChunks)
        /\ \A k \in 1..Len(BundleRecommendations) :
            BundleRecommendations[k].category = "chunk-size"
                => BundleRecommendations[k].severity = "warning"

\* More than 20 chunks over 250000, and as many chunk-size warnings.
C20_Witness ==
    /\ BundleDone
    /\ Cardinality(LargeInputChunks) > 20
    /\ Cardinality(RecommendationsOfKind("warning", "chunk-size")) = Cardinality(LargeInputChunks)

====
